---- MODULE Spec2Model ----
(***************************************************************************)
(* A model of the content moderator: the aggregation and scoring engine    *)
(* (scoring.ts, here src/src/cli.ts:133-392), its four context analyzers,  *)
(* the ML / whitelist merge policy (detectors/mlText.ts) and the driver    *)
(* moderateContent (engine.ts).                                            *)
(*                                                                         *)
(* Numbers.  Weights produced by detectors are integers.  Every fractional *)
(* quantity of the code (source weights, adjusted weights, ratios,         *)
(* multipliers, the score before rounding) is held as an exact rational    *)
(* [n |-> numerator, d |-> denominator] in lowest terms with d > 0.  The   *)
(* code computes in IEEE doubles; the model computes the same expressions  *)
(* exactly, so it says nothing about double rounding error.                *)
(*                                                                         *)
(* Objects.  A JavaScript object is a record; an optional property that is *)
(* absent is a field that is not in the record's DOMAIN.                   *)
(***************************************************************************)
EXTENDS Integers, Sequences, FiniteSets, TLC

VARIABLES
  config,   \* the configuration singleton built once at start-up (config.ts)
  now,      \* the wall clock, in hours since an arbitrary midnight
  table,    \* the rows of the hash store's media_hashes table
  storeUp,  \* the hash store answers; when FALSE its requests fail
  call,     \* the call in progress / last made: its function and arguments
  res,      \* what that call returned
  locals,   \* the local variables of calculateModerationScore in that call
  prev      \* what the previous related call returned (repeat / append)

vars == <<config, now, table, storeUp, call, res, locals, prev>>

(***************************************************************************)
(* Bounds of the model.                                                    *)
(***************************************************************************)
MaxFlags == 2     \* longest flag list handed to calculateModerationScore
MaxClock == 6     \* the clock runs from hour 5 up to this hour
MaxRows == 2      \* most rows of media_hashes followed
MaxHashLen == 2   \* longest hash handed to hammingDistance and compareHashes

(***************************************************************************)
(* Exact rational arithmetic.                                              *)
(***************************************************************************)
Abs(x) == IF x < 0 THEN -x ELSE x

RECURSIVE GCD(_, _)
GCD(a, b) == IF b = 0 THEN a ELSE GCD(b, a % b)

Rat(n, d) ==
  LET g == GCD(Abs(n), d)
  IN  [n |-> n \div g, d |-> d \div g]

Whole(k) == [n |-> k, d |-> 1]

RatMul(x, y) ==
  LET g1 == GCD(Abs(x.n), y.d)
      g2 == GCD(Abs(y.n), x.d)
  IN  Rat((x.n \div g1) * (y.n \div g2), (x.d \div g2) * (y.d \div g1))

RatAdd(x, y) == Rat(x.n * y.d + y.n * x.d, x.d * y.d)

RatLeq(x, y) == x.n * y.d <= y.n * x.d
RatLt(x, y) == x.n * y.d < y.n * x.d
RatGeq(x, y) == RatLeq(y, x)
RatGt(x, y) == RatLt(y, x)

MathMin(x, y) == IF RatLeq(x, y) THEN x ELSE y
MathMax(x, y) == IF RatGeq(x, y) THEN x ELSE y

\* Math.round: the nearest integer, halves rounded towards +infinity.
MathRound(x) == (2 * x.n + x.d) \div (2 * x.d)

\* Math.floor of the quotient of two integers, q > 0.
MathFloorDiv(p, q) == p \div q

RECURSIVE RatSum(_)
RatSum(s) == IF s = <<>> THEN Whole(0) ELSE RatAdd(Head(s), RatSum(Tail(s)))

RECURSIVE RatProduct(_)
RatProduct(s) == IF s = <<>> THEN Whole(1) ELSE RatMul(Head(s), RatProduct(Tail(s)))

(***************************************************************************)
(* Objects.                                                                *)
(***************************************************************************)
Has(o, k) == k \in DOMAIN o

\* JavaScript truthiness of an optional numeric property: present and not 0.
Truthy(o, k) == Has(o, k) /\ o[k] # 0

\* { ...o, k: v }
With(o, k, v) == [f \in DOMAIN o \cup {k} |-> IF f = k THEN v ELSE o[f]]

\* Object.assign(a, b): every property of b set on a.
ObjectAssign(a, b) ==
  [f \in DOMAIN a \cup DOMAIN b |-> IF f \in DOMAIN b THEN b[f] ELSE a[f]]

SeqMap(Op(_), s) == [i \in 1..Len(s) |-> Op(s[i])]

RECURSIVE Flatten(_)
Flatten(ss) == IF ss = <<>> THEN <<>> ELSE Head(ss) \o Flatten(Tail(ss))

(***************************************************************************)
(* config.ts: the schema defaults.                                         *)
(***************************************************************************)
DefaultConfig ==
  [ enableLLM |-> FALSE,
    enableRekognition |-> FALSE,
    enableSupabase |-> FALSE,
    debug |-> FALSE,
    thresholds |-> [block |-> 70, review |-> 30, duplicate |-> Rat(15, 100)],
    weights |-> [rule |-> Rat(10, 10), ml |-> Rat(8, 10),
                 vision |-> Rat(9, 10), metadata |-> Rat(3, 10)],
    temporal |-> [burstHour |-> 10, burstDay |-> 50],
    account |-> [newAccountDays |-> 7, maxViolations |-> 5],
    supabase |-> <<>> ]

(***************************************************************************)
(* features/account.ts (src/src/cli.ts:525-633).  createdAt is the instant *)
(* the ISO date names, in hours on the clock of `now`.                     *)
(***************************************************************************)
analyzeAccountFeatures(context) ==
  LET hasCreated == Has(context, "createdAt")
      accountAgeDays ==
        IF hasCreated THEN MathFloorDiv(now - context.createdAt, 24) ELSE 0
      isNewAccount ==
        hasCreated /\ accountAgeDays <= config.account.newAccountDays
      hasPriorViolations ==
        Truthy(context, "priorViolations") /\ context.priorViolations > 0
      violationCount ==
        IF hasPriorViolations THEN context.priorViolations ELSE 0
      ageFlags ==
        IF isNewAccount
        THEN << [source |-> "metadata", category |-> "new_account", weight |-> 15,
                 message |-> <<"New account (", ToString(accountAgeDays), " days old)">>,
                 confidence |-> Whole(1)] >>
        ELSE <<>>
      violationFlags ==
        IF hasPriorViolations /\ violationCount >= config.account.maxViolations
        THEN << [source |-> "metadata", category |-> "repeat_violator", weight |-> 25,
                 message |-> <<"Account has ", ToString(violationCount), " prior violations">>,
                 confidence |-> Whole(1)] >>
        ELSE IF hasPriorViolations /\ violationCount > 2
        THEN << [source |-> "metadata", category |-> "prior_violations", weight |-> 10,
                 message |-> <<"Account has ", ToString(violationCount), " prior violations">>,
                 confidence |-> Whole(1)] >>
        ELSE <<>>
      verifiedFlags ==
        IF Has(context, "isVerified") /\ context.isVerified = FALSE
        THEN << [source |-> "metadata", category |-> "unverified_account", weight |-> 5,
                 message |-> <<"Unverified account">>, confidence |-> Whole(1)] >>
        ELSE IF Has(context, "isVerified") /\ context.isVerified = TRUE
        THEN << [source |-> "metadata", category |-> "verified_account", weight |-> -5,
                 message |-> <<"Verified account">>, confidence |-> Whole(1)] >>
        ELSE <<>>
  IN  [ features |-> [isNewAccount |-> isNewAccount,
                      accountAgeDays |-> accountAgeDays,
                      hasPriorViolations |-> hasPriorViolations,
                      violationCount |-> violationCount],
        flags |-> ageFlags \o violationFlags \o verifiedFlags ]

(***************************************************************************)
(* features/temporal.ts.  postFrequency is posts per hour.                 *)
(***************************************************************************)
analyzeTemporalFeatures(postingHistory) ==
  LET counted == Truthy(postingHistory, "lastHourCount")
                   /\ Truthy(postingHistory, "last24hCount")
      burstHour == counted /\ postingHistory.lastHourCount > config.temporal.burstHour
      burstDay == counted /\ postingHistory.last24hCount > config.temporal.burstDay
      timeOfDay == now % 24
      hourFlags ==
        IF burstHour
        THEN << [source |-> "metadata", category |-> "burst_posting", weight |-> 20,
                 message |-> <<"High posting frequency: ",
                               ToString(postingHistory.lastHourCount),
                               " posts in the last hour">>,
                 confidence |-> Whole(1)] >>
        ELSE <<>>
      dayFlags ==
        IF burstDay
        THEN << [source |-> "metadata", category |-> "high_volume", weight |-> 15,
                 message |-> <<"High volume posting: ",
                               ToString(postingHistory.last24hCount),
                               " posts in the last 24 hours">>,
                 confidence |-> Whole(1)] >>
        ELSE <<>>
      timingFlags ==
        IF timeOfDay >= 0 /\ timeOfDay <= 5
        THEN << [source |-> "metadata", category |-> "unusual_timing", weight |-> 5,
                 message |-> <<"Unusual posting time: ", ToString(timeOfDay), ":00">>,
                 confidence |-> Rat(7, 10)] >>
        ELSE <<>>
  IN  [ features |-> [isBursting |-> burstHour \/ burstDay,
                      burstHour |-> burstHour,
                      burstDay |-> burstDay,
                      postFrequency |->
                        IF counted THEN Rat(postingHistory.last24hCount, 24)
                        ELSE Whole(0),
                      timeOfDay |-> timeOfDay],
        flags |-> hourFlags \o dayFlags \o timingFlags ]

\* getTemporalRiskMultiplier as features/temporal.ts exports it
\* (src/src/features/temporal.ts:81-97); scoring.ts has a function of the
\* same name, modelled under that name below.
temporal_getTemporalRiskMultiplier(features) ==
  LET m1 == IF features.burstHour THEN Rat(13, 10) ELSE Whole(1)
      m2 == IF features.burstDay THEN RatMul(m1, Rat(12, 10)) ELSE m1
      m3 == IF RatGt(features.postFrequency, Whole(10))
            THEN RatMul(m2, Rat(11, 10)) ELSE m2
  IN  MathMin(m3, Whole(2))

(***************************************************************************)
(* features/network.ts (src/src/features/engagement.ts:155-261).           *)
(***************************************************************************)
analyzeNetworkFeatures(network, crossPlatform) ==
  LET hasSimilarContent ==
        Has(network, "similarTextClusterIds")
          /\ Len(network.similarTextClusterIds) > 0
      similarClusterCount ==
        IF hasSimilarContent THEN Len(network.similarTextClusterIds) ELSE 0
      hasCrossPlatformMatches ==
        Has(crossPlatform, "similarPostHashes")
          /\ Len(crossPlatform.similarPostHashes) > 0
      crossPlatformMatchCount ==
        IF hasCrossPlatformMatches THEN Len(crossPlatform.similarPostHashes) ELSE 0
      clusterFlag(w) ==
        << [source |-> "metadata", category |-> "content_clustering", weight |-> w,
            message |-> <<"Content appears in ", ToString(similarClusterCount),
                          " similar clusters">>,
            confidence |-> Whole(1)] >>
      clusterFlags ==
        IF hasSimilarContent /\ similarClusterCount > 5 THEN clusterFlag(25)
        ELSE IF hasSimilarContent /\ similarClusterCount > 2 THEN clusterFlag(15)
        ELSE <<>>
      crossFlag(w) ==
        << [source |-> "metadata", category |-> "cross_platform_spam", weight |-> w,
            message |-> <<"Content detected across ", ToString(crossPlatformMatchCount),
                          " platforms">>,
            confidence |-> Whole(1)] >>
      crossFlags ==
        IF hasCrossPlatformMatches /\ crossPlatformMatchCount > 3 THEN crossFlag(30)
        ELSE IF hasCrossPlatformMatches /\ crossPlatformMatchCount > 1 THEN crossFlag(20)
        ELSE <<>>
  IN  [ features |-> [hasSimilarContent |-> hasSimilarContent,
                      similarClusterCount |-> similarClusterCount,
                      hasCrossPlatformMatches |-> hasCrossPlatformMatches,
                      crossPlatformMatchCount |-> crossPlatformMatchCount],
        flags |-> clusterFlags \o crossFlags ]

(***************************************************************************)
(* features/engagement.ts.                                                 *)
(***************************************************************************)
\* (ratio * 100).toFixed(..), kept as the exact ratio
RatioText(x) == ToString(x.n) \o "/" \o ToString(x.d)

analyzeEngagementFeatures(engagement) ==
  LET replies == Truthy(engagement, "replies")
      likes == Truthy(engagement, "likes")
      repliers == Truthy(engagement, "uniqueRepliers")
      hasEngagement == replies \/ likes
      engagementRatio ==
        IF replies /\ likes THEN Rat(engagement.replies, engagement.likes)
        ELSE Whole(0)
      isLowQuality ==
        /\ replies /\ likes
        /\ RatLt(engagementRatio, Rat(1, 100))
        /\ engagement.likes > 100
      uniqueReplierRatio ==
        IF replies /\ repliers THEN Rat(engagement.uniqueRepliers, engagement.replies)
        ELSE Whole(0)
      isHighQuality ==
        /\ replies /\ repliers
        /\ RatGt(uniqueReplierRatio, Rat(8, 10))
        /\ engagement.replies > 10
      lowFlags ==
        IF isLowQuality
        THEN << [source |-> "metadata", category |-> "low_engagement", weight |-> 15,
                 message |-> <<"Low engagement ratio: ", RatioText(engagementRatio),
                               " replies/likes">>,
                 confidence |-> Rat(8, 10)] >>
        ELSE <<>>
      highFlags ==
        IF isHighQuality
        THEN << [source |-> "metadata", category |-> "high_quality_engagement",
                 weight |-> -10,
                 message |-> <<"High quality engagement: ",
                               RatioText(uniqueReplierRatio), " unique repliers">>,
                 confidence |-> Rat(9, 10)] >>
        ELSE <<>>
      coordinatedFlags ==
        IF /\ replies /\ repliers
           /\ RatLt(uniqueReplierRatio, Rat(3, 10))
           /\ engagement.replies > 5
        THEN << [source |-> "metadata", category |-> "coordinated_engagement",
                 weight |-> 20,
                 message |-> <<"Low unique replier ratio: ",
                               RatioText(uniqueReplierRatio), " unique repliers">>,
                 confidence |-> Rat(7, 10)] >>
        ELSE <<>>
      suspiciousFlags ==
        IF /\ likes /\ engagement.likes > 1000
           /\ Has(engagement, "replies") /\ engagement.replies = 0
        THEN << [source |-> "metadata", category |-> "suspicious_engagement",
                 weight |-> 25,
                 message |-> <<"High likes with no replies (possible fake engagement)">>,
                 confidence |-> Rat(8, 10)] >>
        ELSE <<>>
      lowLikesFlags ==
        IF /\ replies /\ engagement.replies > 50
           /\ likes /\ engagement.likes < 10
        THEN << [source |-> "metadata", category |-> "coordinated_engagement",
                 weight |-> 20,
                 message |-> <<"High replies with low likes (possible coordinated activity)">>,
                 confidence |-> Rat(7, 10)] >>
        ELSE <<>>
  IN  IF ~hasEngagement
      THEN [ features |-> [hasEngagement |-> FALSE, engagementRatio |-> Whole(0),
                           uniqueReplierRatio |-> Whole(0),
                           isLowQuality |-> FALSE, isHighQuality |-> FALSE],
             flags |-> <<>> ]
      ELSE [ features |-> [hasEngagement |-> TRUE,
                           engagementRatio |-> engagementRatio,
                           uniqueReplierRatio |-> uniqueReplierRatio,
                           isLowQuality |-> isLowQuality,
                           isHighQuality |-> isHighQuality],
             flags |-> lowFlags \o highFlags \o coordinatedFlags
                         \o suspiciousFlags \o lowLikesFlags ]

(***************************************************************************)
(* scoring.ts (src/src/cli.ts:133-392).                                    *)
(***************************************************************************)
\* An optional argument that was not passed.
undefined == [undefined |-> TRUE]

\* getAccountRiskMultiplier without the cap: what C26 fails under.
getAccountRiskMultiplierUncapped(features) ==
  RatMul(IF features.isNewAccount THEN Rat(15, 10) ELSE Whole(1),
         IF features.hasPriorViolations
         THEN RatAdd(Whole(1), RatMul(Whole(features.violationCount), Rat(2, 10)))
         ELSE Whole(1))

getAccountRiskMultiplier(features) ==
  LET m1 == IF features.isNewAccount THEN Rat(15, 10) ELSE Whole(1)
      m2 == IF features.hasPriorViolations
            THEN RatMul(m1, RatAdd(Whole(1),
                                   RatMul(Whole(features.violationCount), Rat(2, 10))))
            ELSE m1
  IN  MathMin(m2, Whole(3))

getTemporalRiskMultiplier(features) ==
  LET m1 == IF features.burstHour THEN Rat(13, 10) ELSE Whole(1)
      m2 == IF features.burstDay THEN RatMul(m1, Rat(12, 10)) ELSE m1
  IN  MathMin(m2, Whole(2))

getNetworkRiskMultiplier(features) ==
  LET m1 == IF features.hasSimilarContent
            THEN RatAdd(Whole(1),
                        RatMul(Whole(features.similarClusterCount), Rat(1, 10)))
            ELSE Whole(1)
      m2 == IF features.hasCrossPlatformMatches
            THEN RatMul(m1, RatAdd(Whole(1),
                                   RatMul(Whole(features.crossPlatformMatchCount),
                                          Rat(2, 10))))
            ELSE m1
  IN  MathMin(m2, Rat(25, 10))

getEngagementRiskMultiplier(features) ==
  LET m1 == IF features.isLowQuality THEN Rat(13, 10) ELSE Whole(1)
      m2 == IF features.isHighQuality THEN RatMul(m1, Rat(8, 10)) ELSE m1
  IN  MathMax(m2, Rat(5, 10))

\* The analyzers run for the sub-objects the context has; the multipliers
\* record has a property for each analyzer that ran, in this order.
MultiplierOrder == <<"account", "temporal", "network", "engagement">>

\* The multiplier of the analyzer named k, from the features it returned.
MultiplierOf(k, features) ==
  CASE k = "account" -> getAccountRiskMultiplier(features)
    [] k = "temporal" -> getTemporalRiskMultiplier(features)
    [] k = "network" -> getNetworkRiskMultiplier(features)
    [] k = "engagement" -> getEngagementRiskMultiplier(features)

\* What each analyzer that runs returns: an analyzer runs when the context
\* has its sub-object (network: either of its two).
AnalyzerResults(context) ==
  [ k \in { a \in {"account", "temporal", "network", "engagement"} :
              \/ a = "account" /\ Has(context, "account")
              \/ a = "temporal" /\ Has(context, "postingHistory")
              \/ a = "network" /\ (Has(context, "network")
                                     \/ Has(context, "crossPlatform"))
              \/ a = "engagement" /\ Has(context, "engagement") } |->
      CASE k = "account" -> analyzeAccountFeatures(context.account)
        [] k = "temporal" -> analyzeTemporalFeatures(context.postingHistory)
        [] k = "network" ->
             analyzeNetworkFeatures(
               IF Has(context, "network") THEN context.network
               ELSE [similarTextClusterIds |-> <<>>],
               IF Has(context, "crossPlatform") THEN context.crossPlatform
               ELSE [similarPostHashes |-> <<>>])
        [] k = "engagement" -> analyzeEngagementFeatures(context.engagement) ]

\* flags.push(...result.flags); multipliers[k] = get..RiskMultiplier(result.features)
CollectFeatures(results) ==
  [ flags |-> Flatten([i \in 1..4 |->
                IF MultiplierOrder[i] \in DOMAIN results
                THEN results[MultiplierOrder[i]].flags ELSE <<>>]),
    multipliers |-> [k \in DOMAIN results |-> MultiplierOf(k, results[k].features)] ]

analyzeContextFeatures(context) == CollectFeatures(AnalyzerResults(context))

\* config.weights[flag.source] || 1.0
SourceWeight(source) ==
  IF config.weights[source].n = 0 THEN Whole(1) ELSE config.weights[source]

\* { ...flag, adjustedWeight: flag.weight * (config.weights[flag.source] || 1.0) }
Weighted(flag) ==
  With(flag, "adjustedWeight", RatMul(Whole(flag.weight), SourceWeight(flag.source)))

\* BaseScore keeping the last flag's adjusted weight instead of the sum:
\* what C8 fails under.
BaseScoreLast(weightedFlags) ==
  IF weightedFlags = <<>> THEN Whole(0)
  ELSE weightedFlags[Len(weightedFlags)].adjustedWeight

\* for (const flag of weightedFlags) baseScore += flag.adjustedWeight
BaseScore(weightedFlags) ==
  RatSum([i \in 1..Len(weightedFlags) |-> weightedFlags[i].adjustedWeight])

\* ApplyMultipliers without the engagement multiplier: what C4 fails under.
ApplyWithoutEngagement(score, m) ==
  RatMul(score,
    RatProduct([i \in 1..3 |->
      IF MultiplierOrder[i] \in DOMAIN m THEN m[MultiplierOrder[i]] ELSE Whole(1)]))

\* for (const [, multiplier] of Object.entries(m)) finalScore *= multiplier
ApplyMultipliers(score, m) ==
  RatMul(score, RatProduct([i \in 1..4 |->
    IF MultiplierOrder[i] \in DOMAIN m THEN m[MultiplierOrder[i]] ELSE Whole(1)]))

\* CapScore without its floor at 0: what C1 fails under.
CapScoreNoFloor(finalScore) == MathMin(finalScore, Whole(100))

\* Math.min(Math.max(finalScore, 0), 100)
CapScore(finalScore) == MathMin(MathMax(finalScore, Whole(0)), Whole(100))

\* LabelFor reading the rounded score: what C2 fails under.
LabelForRounded(finalScore, thresholds) ==
  IF MathRound(finalScore) >= thresholds.block THEN "block"
  ELSE IF MathRound(finalScore) >= thresholds.review THEN "review"
  ELSE "allow"

LabelFor(finalScore, thresholds) ==
  IF RatGeq(finalScore, Whole(thresholds.block)) THEN "block"
  ELSE IF RatGeq(finalScore, Whole(thresholds.review)) THEN "review"
  ELSE "allow"

\* The local variables of calculateModerationScore when it returns, from
\* the weighted flags and what analyzeContextFeatures returned.
LocalsFrom(weightedFlags, featureResults) ==
  [ weightedFlags |-> weightedFlags,
    baseScore |-> BaseScore(weightedFlags),
    featureMultipliers |-> featureResults.multipliers,
    product |-> ApplyMultipliers(BaseScore(weightedFlags), featureResults.multipliers),
    finalScore |-> CapScore(ApplyMultipliers(BaseScore(weightedFlags),
                                              featureResults.multipliers)),
    allFlags |-> weightedFlags \o SeqMap(Weighted, featureResults.flags) ]

\* ScoreLocals with a flag list that outlives the call, each call adding
\* its flags to those of the call before: what C9 fails under.
ScoreLocalsKept(flags, context) ==
  LocalsFrom(SeqMap(Weighted,
                    (IF locals = undefined THEN <<>> ELSE locals.weightedFlags)
                    \o flags),
             IF context # undefined THEN analyzeContextFeatures(context)
             ELSE [flags |-> <<>>, multipliers |-> <<>>])

ScoreLocals(flags, context) ==
  LocalsFrom(SeqMap(Weighted, flags),
             IF context # undefined THEN analyzeContextFeatures(context)
             ELSE [flags |-> <<>>, multipliers |-> <<>>])

\* What calculateModerationScore returns from its locals.  elapsed is
\* Date.now() - startTime.  The debug property is returned undefined (here:
\* absent) unless config.debug.
ScoringResult(l, elapsed) ==
  IF config.debug
  THEN [ score |-> MathRound(l.finalScore),
         label |-> LabelFor(l.finalScore, config.thresholds),
         flags |-> l.allFlags,
         debug |-> [ providers |-> <<>>,
                     timings |-> [total |-> elapsed],
                     featureMultipliers |-> l.featureMultipliers ] ]
  ELSE [ score |-> MathRound(l.finalScore),
         label |-> LabelFor(l.finalScore, config.thresholds),
         flags |-> l.allFlags ]

calculateModerationScore(flags, context, elapsed) ==
  ScoringResult(ScoreLocals(flags, context), elapsed)

(***************************************************************************)
(* The rule-based text detectors.  A text is a sequence of tokens, each    *)
(* the stretch of the string that one of the detectors' patterns matches   *)
(* (or a plain word); the empty sequence is the empty string.  A token has *)
(* its kind, its number of characters and of capital letters, and what the *)
(* pattern reads from it.  The flags' indices and snippet are left out.    *)
(***************************************************************************)
RECURSIVE SumInts(_)
SumInts(s) == IF s = <<>> THEN 0 ELSE Head(s) + SumInts(Tail(s))

\* text.length, the tokens being separated by single spaces
TextLength(text) ==
  IF text = <<>> THEN 0
  ELSE SumInts([i \in 1..Len(text) |-> text[i].len]) + (Len(text) - 1)

\* (text.match(/[A-Z]/g) || []).length
Capitals(text) == SumInts([i \in 1..Len(text) |-> text[i].caps])

OfKind(text, kind) == SelectSeq(text, LAMBDA t : t.kind = kind)

shorteners ==
  { "bit.ly", "t.co", "goo.gl", "tinyurl.com", "ow.ly", "is.gd", "buff.ly",
    "cutt.ly", "t.ly", "rebrand.ly" }

\* One flag per URL of the text, and one more from three URLs on.
linksDetector(text) ==
  LET LinkFlag(url) ==
        IF url.host \in shorteners
        THEN [source |-> "rule", category |-> "links", weight |-> 30,
              message |-> <<"Suspicious link shortener">>]
        ELSE [source |-> "rule", category |-> "links", weight |-> 5,
              message |-> <<"External link">>]
  IN  SeqMap(LinkFlag, OfKind(text, "url"))
      \o (IF Len(OfKind(text, "url")) >= 3
          THEN << [source |-> "rule", category |-> "spam", weight |-> 15,
                   message |-> <<"Too many links">>] >>
          ELSE <<>>)

\* At most one flag each for an e-mail address, a phone number and a card
\* number that passes luhnCheck (token field luhn).
piiDetector(text) ==
  (IF OfKind(text, "email") # <<>>
   THEN << [source |-> "rule", category |-> "pii", weight |-> 15,
            message |-> <<"Email address detected">>] >>
   ELSE <<>>)
  \o (IF OfKind(text, "phone") # <<>>
      THEN << [source |-> "rule", category |-> "pii", weight |-> 10,
               message |-> <<"Phone number detected">>] >>
      ELSE <<>>)
  \o (IF OfKind(text, "card") # <<>> /\ Head(OfKind(text, "card")).luhn
      THEN << [source |-> "rule", category |-> "pii", weight |-> 35,
               message |-> <<"Potential credit card number">>] >>
      ELSE <<>>)

\* len = text.length || 1; ratio = caps / len
spamDetector(text) ==
  (IF 2 * Capitals(text) > (IF TextLength(text) = 0 THEN 1 ELSE TextLength(text))
      /\ TextLength(text) > 10
   THEN << [source |-> "rule", category |-> "spam", weight |-> 10,
            message |-> <<"Excessive ALL CAPS">>] >>
   ELSE <<>>)
  \o (IF OfKind(text, "punct") # <<>>
      THEN << [source |-> "rule", category |-> "spam", weight |-> 8,
               message |-> <<"Excessive punctuation">>] >>
      ELSE <<>>)
  \o (IF OfKind(text, "scam") # <<>>
      THEN << [source |-> "rule", category |-> "spam", weight |-> 18,
               message |-> <<"Scam-like phrase">>] >>
      ELSE <<>>)

\* wordlistDetector(category, listName, weight)(text): one flag, without a
\* source, per occurrence of a phrase of the list in the normalised text.
wordlistDetector(category, listName, weight, text) ==
  LET PhraseFlag(t) ==
        [category |-> category, weight |-> weight,
         message |-> <<"Matched phrase: ", t.phrase>>]
  IN  SeqMap(PhraseFlag,
             SelectSeq(text, LAMBDA t : t.kind = "phrase" /\ t.list = listName))

runAllDetectors(text) ==
  wordlistDetector("profanity", "profanity", 18, text)
  \o wordlistDetector("hate", "hate", 28, text)
  \o wordlistDetector("violence", "violence", 30, text)
  \o wordlistDetector("sexual", "sexual", 22, text)
  \o wordlistDetector("selfharm", "selfharm", 40, text)
  \o piiDetector(text)
  \o linksDetector(text)
  \o spamDetector(text)

\* engine.ts: the three detectors, then runAllDetectors, which runs the
\* same three again after the word lists; its flags get source rule.
runRuleBasedDetectors(text) ==
  LET AsRule(flag) == With(flag, "source", "rule")
  IN  linksDetector(text) \o piiDetector(text) \o spamDetector(text)
      \o SeqMap(AsRule, runAllDetectors(text))

(***************************************************************************)
(* detectors/mlText.ts.  provider is the NLP provider as the call finds    *)
(* it: its name, whether it is configured (isEnabled), and what its        *)
(* moderateText does: it throws (result.throws), or it returns             *)
(* result.enabled and result.categories, the entries of the categories     *)
(* object in their order.                                                  *)
(***************************************************************************)
\* (x * 100).toFixed(1) of a confidence x
Percent(x) ==
  LET tenths == MathRound(RatMul(x, Whole(1000)))
  IN  ToString(tenths \div 10) \o "." \o ToString(tenths % 10)

\* moderateTextWithML with a confidence of 0.6 making a flag as well.
moderateTextWithMLInclusive(text, provider) ==
  LET MLFlag(detection) ==
        [source |-> "ml", category |-> detection.category,
         weight |-> MathRound(RatMul(detection.confidence, Whole(40))),
         message |-> <<"ML detection: ", detection.label, " (",
                       Percent(detection.confidence), "%)">>,
         confidence |-> detection.confidence,
         provider |-> provider.name]
  IN  IF ~config.enableLLM
      THEN [flags |-> <<>>, provider |-> "none", enabled |-> FALSE]
      ELSE IF ~provider.isEnabled
      THEN [flags |-> <<>>, provider |-> provider.name, enabled |-> FALSE]
      ELSE IF Has(provider.result, "throws")
      THEN [flags |-> <<>>, provider |-> "error", enabled |-> FALSE]
      ELSE IF ~provider.result.enabled \/ ~Has(provider.result, "categories")
      THEN [flags |-> <<>>, provider |-> provider.name, enabled |-> FALSE]
      ELSE [flags |-> SeqMap(MLFlag,
                        SelectSeq(provider.result.categories,
                                  LAMBDA d : RatGeq(d.confidence, Rat(6, 10)))),
            provider |-> provider.name, enabled |-> TRUE]

\* moderateTextWithML letting a provider's failure through as a flag: what
\* C18 fails under.
moderateTextWithMLFlagging(text, provider) ==
  [flags |-> << [source |-> "ml", category |-> "error", weight |-> 40,
                 message |-> <<"ML provider failed">>] >>,
   enabled |-> TRUE,
   provider |-> "error"]

moderateTextWithML(text, provider) ==
  LET MLFlag(detection) ==
        [source |-> "ml", category |-> detection.category,
         weight |-> MathRound(RatMul(detection.confidence, Whole(40))),
         message |-> <<"ML detection: ", detection.label, " (",
                       Percent(detection.confidence), "%)">>,
         confidence |-> detection.confidence,
         provider |-> provider.name]
  IN  IF ~config.enableLLM
      THEN [flags |-> <<>>, provider |-> "none", enabled |-> FALSE]
      ELSE IF ~provider.isEnabled
      THEN [flags |-> <<>>, provider |-> provider.name, enabled |-> FALSE]
      ELSE IF Has(provider.result, "throws")
      THEN [flags |-> <<>>, provider |-> "error", enabled |-> FALSE]
      ELSE IF ~provider.result.enabled \/ ~Has(provider.result, "categories")
      THEN [flags |-> <<>>, provider |-> provider.name, enabled |-> FALSE]
      ELSE [flags |-> SeqMap(MLFlag,
                        SelectSeq(provider.result.categories,
                                  LAMBDA d : RatGt(d.confidence, Rat(6, 10)))),
            provider |-> provider.name, enabled |-> TRUE]

\* mergeMLAndRuleFlags leaving out the ML flags of a category the rules
\* flagged.
mergeMLAndRuleFlagsDropping(mlFlags, ruleFlags) ==
  ruleFlags \o SelectSeq(mlFlags,
                 LAMBDA mlFlag : \A i \in 1..Len(ruleFlags) :
                                   ruleFlags[i].category # mlFlag.category)

mergeMLAndRuleFlags(mlFlags, ruleFlags) ==
  LET Merged(mlFlag) ==
        IF \E i \in 1..Len(ruleFlags) : ruleFlags[i].category = mlFlag.category
        THEN [mlFlag EXCEPT
                !.weight = MathRound(RatMul(Whole(@), Rat(7, 10))),
                !.message = Append(@, " (reinforced by rules)")]
        ELSE mlFlag
  IN  ruleFlags \o SeqMap(Merged, mlFlags)

\* The words each whitelist pattern matches and the categories it lists.
whitelistPatterns ==
  << [pattern |-> {"discuss", "discussion", "warning", "awareness",
                   "education", "learn"},
      categories |-> {"scam"}],
     [pattern |-> {"news", "report", "article", "coverage", "investigation"},
      categories |-> {"violence", "hate"}],
     [pattern |-> {"research", "study", "analysis", "paper", "academic",
                   "university"},
      categories |-> {"sexual", "violence"}] >>

\* applyWhitelistRules halving the weight once for every pattern that
\* lists the flag's category and matches the text.
applyWhitelistRulesEach(flags, text) ==
  LET Test(pattern) ==
        \E i \in 1..Len(text) : text[i].kind = "word" /\ text[i].word \in pattern
      Hits(flag) ==
        Cardinality({ p \in 1..Len(whitelistPatterns) :
                        /\ flag.category \in whitelistPatterns[p].categories
                        /\ Test(whitelistPatterns[p].pattern) })
      Reduced(flag) ==
        IF Hits(flag) = 0 THEN flag
        ELSE IF Hits(flag) = 1
        THEN [flag EXCEPT !.weight = MathRound(Rat(@, 2)),
                          !.message = Append(@, " (whitelisted context)")]
        ELSE [flag EXCEPT !.weight = MathRound(Rat(MathRound(Rat(@, 2)), 2)),
                          !.message = Append(@, " (whitelisted context)")]
  IN  SeqMap(Reduced, flags)

\* Every flag is kept; the first pattern that lists the flag's category and
\* matches the text halves its weight.
applyWhitelistRules(flags, text) ==
  LET Test(pattern) ==
        \E i \in 1..Len(text) : text[i].kind = "word" /\ text[i].word \in pattern
      Reduced(flag) ==
        IF \E p \in 1..Len(whitelistPatterns) :
              /\ flag.category \in whitelistPatterns[p].categories
              /\ Test(whitelistPatterns[p].pattern)
        THEN [flag EXCEPT !.weight = MathRound(Rat(@, 2)),
                          !.message = Append(@, " (whitelisted context)")]
        ELSE flag
  IN  SeqMap(Reduced, flags)

(***************************************************************************)
(* data/supabase.ts: the hash store.  table holds the rows of media_hashes *)
(* in the order they were saved.                                           *)
(***************************************************************************)
\* SupabaseClientImpl.enabled, set by the constructor
supabaseEnabled ==
  config.enableSupabase /\ Has(config.supabase, "url")
                        /\ Has(config.supabase, "anonKey")

Reverse(s) == [i \in 1..Len(s) |-> s[Len(s) + 1 - i]]

\* listRecentMediaHashes answering from the rows whatever the state of the
\* store: what C21 fails under.
listRecentMediaHashesUnchecked(type, limit) ==
  LET rows == Reverse(SelectSeq(table, LAMBDA r : r.type = type))
  IN  SubSeq(rows, 1, IF Len(rows) < limit THEN Len(rows) ELSE limit)

\* The rows of the type, newest first, at most limit of them; none when the
\* store is disabled or the request fails (an error answer or a rejection,
\* both caught and logged).
listRecentMediaHashes(type, limit) ==
  IF ~supabaseEnabled \/ ~storeUp THEN <<>>
  ELSE LET rows == Reverse(SelectSeq(table, LAMBDA r : r.type = type))
       IN  SubSeq(rows, 1, IF Len(rows) < limit THEN Len(rows) ELSE limit)

\* table.upsert(row): hash is the primary key of media_hashes
\* (src/README.md:217-223), so a row with the hash is replaced, and the row
\* saved is the newest.
Upsert(rows, row) == SelectSeq(rows, LAMBDA r : r.hash # row.hash) \o <<row>>

RECURSIVE UpsertAll(_, _)
UpsertAll(rows, saved) ==
  IF saved = <<>> THEN rows
  ELSE UpsertAll(Upsert(rows, Head(saved)), Tail(saved))

\* The table after saveMediaHash(row) for each of the rows, in order; a
\* failing upsert is logged and leaves the table as it was.
saveMediaHash(rows) ==
  IF ~supabaseEnabled \/ ~storeUp THEN table ELSE UpsertAll(table, rows)

(***************************************************************************)
(* media/hashing.ts and media/image.ts, media/video.ts                     *)
(* (src/src/media/image.ts).  A hash is the sequence of its characters.    *)
(* An asset is what the url yields when the call is made: whether the      *)
(* fetch (the keyframe extraction) and the decoding succeed, the hashes of *)
(* the image (of each keyframe), and the vision provider as the call finds *)
(* it: configured or not (isEnabled), and the result of its moderateImage. *)
(* existingHashes is <<>> when the caller passes none: the code treats an  *)
(* absent list as an empty one.  The file holds an earlier image.ts and     *)
(* video.ts as well, which compare with computeSimilarity and take their   *)
(* candidates from existingHashes alone; the versions modelled are the     *)
(* ones that replaced them (hammingDistance, candidates from the store).   *)
(***************************************************************************)
\* hammingDistance counting only the positions where hash1 has the 1.
hammingDistanceOneSided(hash1, hash2) ==
  IF Len(hash1) # Len(hash2) THEN -1
  ELSE Cardinality({i \in 1..Len(hash1) : hash1[i] = "1" /\ hash2[i] = "0"})

\* The number of positions at which the hashes differ; -1 stands for the
\* Error thrown when their lengths differ.
hammingDistance(hash1, hash2) ==
  IF Len(hash1) # Len(hash2) THEN -1
  ELSE Cardinality({i \in 1..Len(hash1) : hash1[i] # hash2[i]})

\* 0 / 0
NaN == [nan |-> TRUE]

IsNaN(x) == "nan" \in DOMAIN x

\* distance / length of a hash: NaN for the empty hash, whose distance is 0.
Normalized(distance, length) ==
  IF length = 0 THEN NaN ELSE Rat(distance, length)

\* Math.min of two numbers either of which may be NaN.
MinOrNaN(x, y) ==
  IF IsNaN(x) \/ IsNaN(y) THEN NaN ELSE MathMin(x, y)

\* The HashComparison of the two normalized distances; a comparison with
\* NaN is false.
HashComparison(p, d, threshold) ==
  [ pHashDistance |-> p,
    dHashDistance |-> d,
    minDistance |-> MinOrNaN(p, d),
    isDuplicate |-> IF IsNaN(MinOrNaN(p, d)) THEN FALSE
                    ELSE RatLeq(MinOrNaN(p, d), threshold) ]

\* [throws |-> TRUE] stands for the Error of hammingDistance.
compareHashes(hash1, hash2, threshold) ==
  IF \/ hammingDistance(hash1.pHash, hash2.pHash) = -1
     \/ hammingDistance(hash1.dHash, hash2.dHash) = -1
  THEN [throws |-> TRUE]
  ELSE HashComparison(
         Normalized(hammingDistance(hash1.pHash, hash2.pHash), Len(hash1.pHash)),
         Normalized(hammingDistance(hash1.dHash, hash2.dHash), Len(hash1.dHash)),
         threshold)

\* FirstDuplicate with a candidate at the threshold not matching.
RECURSIVE FirstDuplicateBelow(_, _)
FirstDuplicateBelow(pHash, candidates) ==
  IF candidates = <<>> THEN [found |-> "none"]
  ELSE IF hammingDistance(pHash, Head(candidates)) = -1 THEN [found |-> "throws"]
  ELSE IF /\ Len(pHash) > 0
          /\ RatLt(Rat(hammingDistance(pHash, Head(candidates)), Len(pHash)),
                   config.thresholds.duplicate)
  THEN [found |-> "match", hash |-> Head(candidates),
        similarity |-> RatAdd(Whole(1),
                         Rat(-hammingDistance(pHash, Head(candidates)), Len(pHash)))]
  ELSE FirstDuplicateBelow(pHash, Tail(candidates))

\* FirstDuplicate scanning from the last candidate to the first.
RECURSIVE LastDuplicate(_, _)
LastDuplicate(pHash, candidates) ==
  IF candidates = <<>> THEN [found |-> "none"]
  ELSE IF hammingDistance(pHash, candidates[Len(candidates)]) = -1
  THEN [found |-> "throws"]
  ELSE IF /\ Len(pHash) > 0
          /\ RatLeq(Rat(hammingDistance(pHash, candidates[Len(candidates)]),
                        Len(pHash)),
                    config.thresholds.duplicate)
  THEN [found |-> "match", hash |-> candidates[Len(candidates)],
        similarity |-> RatAdd(Whole(1),
                         Rat(-hammingDistance(pHash, candidates[Len(candidates)]),
                             Len(pHash)))]
  ELSE LastDuplicate(pHash, SubSeq(candidates, 1, Len(candidates) - 1))

\* The scan of the candidates: the first one within the duplicate
\* threshold ends it, a candidate of another length makes it throw.  The
\* distance of two empty hashes is 0 / 0, NaN, which is within no threshold.
RECURSIVE FirstDuplicate(_, _)
FirstDuplicate(pHash, candidates) ==
  IF candidates = <<>> THEN [found |-> "none"]
  ELSE IF hammingDistance(pHash, Head(candidates)) = -1 THEN [found |-> "throws"]
  ELSE IF /\ Len(pHash) > 0
          /\ RatLeq(Rat(hammingDistance(pHash, Head(candidates)), Len(pHash)),
                    config.thresholds.duplicate)
  THEN [found |-> "match", hash |-> Head(candidates),
        similarity |-> RatAdd(Whole(1),
                         Rat(-hammingDistance(pHash, Head(candidates)), Len(pHash)))]
  ELSE FirstDuplicate(pHash, Tail(candidates))

\* The flags of the categories a vision result reports with confidence
\* above 0.5; none unless the provider is configured and its result enabled.
VisionCategories(vision) ==
  IF vision.isEnabled /\ vision.result.enabled /\ Has(vision.result, "categories")
  THEN SelectSeq(vision.result.categories, LAMBDA d : RatGt(d.confidence, Rat(5, 10)))
  ELSE <<>>

fallbackHashes == [pHash |-> <<>>, dHash |-> <<>>, width |-> 0, height |-> 0]

\* The scan of moderateImage made after the image's own hash was saved:
\* what C29 fails under.
ImageDuplicateAfterSave(existingHashes, asset) ==
  FirstDuplicate(asset.hashes.pHash,
    (IF config.enableSupabase /\ supabaseEnabled /\ storeUp
     THEN <<asset.hashes.pHash>> ELSE <<>>)
    \o (IF config.enableSupabase
        THEN SeqMap(LAMBDA row : row.hash, listRecentMediaHashes("image", 500))
        ELSE <<>>)
    \o existingHashes)

\* What the candidate scan of moderateImage finds for the asset.
ImageDuplicate(existingHashes, asset) ==
  FirstDuplicate(asset.hashes.pHash,
    (IF config.enableSupabase
     THEN SeqMap(LAMBDA row : row.hash, listRecentMediaHashes("image", 500))
     ELSE <<>>)
    \o existingHashes)

ImageResult(dup, asset) ==
  LET VisionFlag(d) ==
        [source |-> "vision", category |-> d.category,
         weight |-> MathRound(RatMul(d.confidence, Whole(50))),
         message |-> <<"Vision detection: ", d.label, " (",
                       Percent(d.confidence), "%)">>,
         confidence |-> d.confidence, provider |-> "aws-rekognition"]
  IN  IF dup.found = "throws" THEN [hashes |-> fallbackHashes, flags |-> <<>>]
      ELSE ObjectAssign(
             [hashes |-> asset.hashes,
              flags |->
                (IF dup.found = "match"
                 THEN << [source |-> "metadata", category |-> "duplicate",
                          weight |-> 20,
                          message |-> <<"Duplicate image detected (",
                                        Percent(dup.similarity), "% similarity)">>,
                          mediaHash |-> asset.hashes.pHash,
                          confidence |-> dup.similarity] >>
                 ELSE <<>>)
                \o (IF config.enableRekognition
                    THEN SeqMap(VisionFlag, VisionCategories(asset.vision))
                    ELSE <<>>)],
             IF dup.found = "match"
             THEN [duplicateHash |-> dup.hash, duplicateDistance |-> dup.similarity]
             ELSE <<>>)

moderateImage(media, existingHashes, asset) ==
  IF ~asset.fetch \/ ~asset.decode
  THEN [hashes |-> fallbackHashes, flags |-> <<>>]
  ELSE ImageResult(ImageDuplicate(existingHashes, asset), asset)

\* The rows moderateImage saves: the image's pHash, once the scan is over.
ImageSaves(media, existingHashes, asset) ==
  IF /\ asset.fetch /\ asset.decode /\ config.enableSupabase
     /\ ImageDuplicate(existingHashes, asset).found # "throws"
  THEN << [hash |-> asset.hashes.pHash, type |-> "image", url |-> media.url] >>
  ELSE <<>>

\* What the candidate scan of moderateVideo finds for each keyframe: the
\* provided hashes come first, then the recent ones, read once.
VideoDuplicates(existingHashes, asset) ==
  [i \in 1..Len(asset.frames) |->
     FirstDuplicate(asset.frames[i].hashes.pHash,
       existingHashes
       \o (IF config.enableSupabase
           THEN SeqMap(LAMBDA row : row.hash, listRecentMediaHashes("video", 500))
           ELSE <<>>))]

\* sampleSize = min(frames.length, 9); step = max(1, floor(length / sampleSize));
\* the frames at 0, step, 2 step, .. below sampleSize * step, each with the
\* flags of its own vision result.  Frame i has index i - 1, timestamp 2 (i - 1).
moderateVideoWithVision(frames) ==
  LET sampleSize == IF Len(frames) < 9 THEN Len(frames) ELSE 9
      step == IF sampleSize = 0 THEN 1 ELSE Len(frames) \div sampleSize
      FrameFlags(i) ==
        IF (i - 1) % step = 0 /\ i - 1 < sampleSize * step
        THEN [k \in 1..Len(VisionCategories(frames[i].vision)) |->
                LET d == VisionCategories(frames[i].vision)[k]
                IN  [source |-> "vision", category |-> d.category,
                     weight |-> MathRound(RatMul(d.confidence, Whole(50))),
                     message |-> <<"Vision detection at ", ToString(2 * (i - 1)),
                                   ".00s: ", d.label, " (",
                                   Percent(d.confidence), "%)">>,
                     confidence |-> d.confidence, provider |-> "aws-rekognition",
                     frameIndex |-> i - 1, thumbPath |-> ToString(i)]]
        ELSE <<>>
  IN  Flatten([i \in 1..Len(frames) |-> FrameFlags(i)])

VideoResult(dups, asset) ==
  LET matches == SelectSeq([i \in 1..Len(dups) |-> With(dups[i], "frameIndex", i - 1)],
                           LAMBDA dup : dup.found = "match")
      DuplicateFlag(dup) ==
        [source |-> "metadata", category |-> "duplicate", weight |-> 20,
         message |-> <<"Duplicate video frame detected (",
                       Percent(dup.similarity), "% similarity)">>,
         mediaHash |-> asset.frames[dup.frameIndex + 1].hashes.pHash,
         frameIndex |-> dup.frameIndex,
         confidence |-> dup.similarity]
  IN  IF \E i \in 1..Len(dups) : dups[i].found = "throws"
      THEN [hashes |-> <<>>, flags |-> <<>>, frameCount |-> 0]
      ELSE ObjectAssign(
             [hashes |-> [i \in 1..Len(asset.frames) |-> asset.frames[i].hashes],
              flags |-> SeqMap(DuplicateFlag, matches)
                        \o (IF config.enableRekognition
                            THEN moderateVideoWithVision(asset.frames)
                            ELSE <<>>),
              frameCount |-> Len(asset.frames)],
             IF matches # <<>>
             THEN [duplicateHashes |-> SeqMap(LAMBDA dup : dup.hash, matches),
                   duplicateDistances |->
                     SeqMap(LAMBDA dup : RatMul(dup.similarity, Whole(100)), matches)]
             ELSE <<>>)

moderateVideo(media, existingHashes, asset) ==
  IF ~asset.fetch \/ ~asset.decode
  THEN [hashes |-> <<>>, flags |-> <<>>, frameCount |-> 0]
  ELSE VideoResult(VideoDuplicates(existingHashes, asset), asset)

\* The rows moderateVideo saves: the pHash of every keyframe whose scan is
\* over, up to the first keyframe whose scan throws.
VideoSaves(media, existingHashes, asset) ==
  IF asset.fetch /\ asset.decode /\ config.enableSupabase
  THEN LET dups == VideoDuplicates(existingHashes, asset)
           done == { i \in 1..Len(dups) :
                       \A j \in 1..i : dups[j].found # "throws" }
       IN  [i \in 1..Cardinality(done) |->
              [hash |-> asset.frames[i].hashes.pHash, type |-> "video",
               url |-> media.url]]
  ELSE <<>>

(***************************************************************************)
(* platforms.ts: the platform registry.                                    *)
(***************************************************************************)
PLATFORMS ==
  [ generic |-> [weights |-> <<>>, thresholds |-> [review |-> 25, block |-> 70]],
    x |-> [weights |-> [links |-> Rat(11, 10), spam |-> Rat(12, 10)],
           thresholds |-> [review |-> 25, block |-> 70]],
    instagram |-> [weights |-> [sexual |-> Rat(12, 10)],
                   thresholds |-> [review |-> 25, block |-> 65]],
    tiktok |-> [weights |-> <<>>, thresholds |-> [review |-> 25, block |-> 65]] ]

(***************************************************************************)
(* engine.ts: moderateContent(text, media, options).  world is what the    *)
(* call finds outside the process: the NLP provider and the media asset.   *)
(* fault names the step of the pipeline in which an exception is raised,   *)
(* if that step is entered: in runRuleBasedDetectors, in                   *)
(* mergeMLAndRuleFlags, in moderateImage / moderateVideo, in               *)
(* applyWhitelistRules or in calculateModerationScore.                     *)
(***************************************************************************)
Steps == <<"detectors", "ml", "media", "whitelist", "scoring">>

\* if (text): a string that is present and not empty.  The code reads the
\* text in no other way before this test, so an absent text is <<>> too.
HasText(text) == text # <<>>

\* Steps 1 and 2: the rule flags, merged with the ML flags when ML is on
\* and the provider returned some.
TextFlags(text, provider) ==
  IF ~HasText(text) THEN <<>>
  ELSE IF /\ config.enableLLM
          /\ moderateTextWithML(text, provider).enabled
          /\ Len(moderateTextWithML(text, provider).flags) > 0
  THEN mergeMLAndRuleFlags(moderateTextWithML(text, provider).flags,
                           runRuleBasedDetectors(text))
  ELSE runRuleBasedDetectors(text)

\* Step 3: the flags of the media.
MediaFlags(media, asset) ==
  IF media = undefined THEN <<>>
  ELSE IF media.type = "image" THEN moderateImage(media, <<>>, asset).flags
  ELSE IF media.type = "video" THEN moderateVideo(media, <<>>, asset).flags
  ELSE <<>>

\* The rows the media step saves to the hash store.
MediaSaves(media, asset) ==
  IF media = undefined THEN <<>>
  ELSE IF media.type = "image" THEN ImageSaves(media, <<>>, asset)
  ELSE IF media.type = "video" THEN VideoSaves(media, <<>>, asset)
  ELSE <<>>

\* Steps 1 to 4: allFlags as handed to calculateModerationScore.
PipelineFlags(text, media, world) ==
  IF HasText(text)
  THEN applyWhitelistRules(TextFlags(text, world.provider)
                           \o MediaFlags(media, world.asset), text)
  ELSE MediaFlags(media, world.asset)

\* ThrowsAt with a media failure raised to moderateContent's catch block:
\* what C19 fails under.
ThrowsAtMediaFailure(text, media, world, fault) ==
  IF media # undefined /\ (~world.asset.fetch \/ ~world.asset.decode)
  THEN 3
  ELSE IF \/ fault = "detectors" /\ HasText(text)
          \/ /\ fault = "ml" /\ HasText(text) /\ config.enableLLM
             /\ moderateTextWithML(text, world.provider).enabled
             /\ Len(moderateTextWithML(text, world.provider).flags) > 0
          \/ fault = "media" /\ media # undefined
          \/ fault = "whitelist" /\ HasText(text)
          \/ fault = "scoring"
  THEN CHOOSE i \in 1..Len(Steps) : Steps[i] = fault
  ELSE Len(Steps) + 1

\* The position in Steps of the step that throws, Len(Steps) + 1 if none does.
ThrowsAt(text, media, world, fault) ==
  IF \/ fault = "detectors" /\ HasText(text)
     \/ /\ fault = "ml" /\ HasText(text) /\ config.enableLLM
        /\ moderateTextWithML(text, world.provider).enabled
        /\ Len(moderateTextWithML(text, world.provider).flags) > 0
     \/ fault = "media" /\ media # undefined
     \/ fault = "whitelist" /\ HasText(text)
     \/ fault = "scoring"
  THEN CHOOSE i \in 1..Len(Steps) : Steps[i] = fault
  ELSE Len(Steps) + 1

\* debug.providers when the step at position `at` throws (or none does):
\* the entry of step 2 is made before the merge, that of step 3 after the
\* media call.
DebugProviders(text, media, world, at) ==
  ObjectAssign(
    IF at < 2 \/ ~HasText(text) THEN <<>>
    ELSE IF config.enableLLM
    THEN [k \in {moderateTextWithML(text, world.provider).provider} |->
            IF moderateTextWithML(text, world.provider).enabled
            THEN "enabled" ELSE "disabled"]
    ELSE [ml |-> "disabled"],
    IF at > 3 /\ media # undefined /\ media.type \in {"image", "video"}
    THEN [vision |-> IF config.enableRekognition THEN "enabled" ELSE "disabled"]
    ELSE <<>>)

\* options.platform || 'generic'
PlatformOf(options) == IF Has(options, "platform") THEN options.platform ELSE "generic"

ContextOf(options) == IF Has(options, "context") THEN options.context ELSE undefined

\* ErrorResult failing open, the content let through: what C7 fails under.
ErrorResultOpen(options, message, debug) ==
  ObjectAssign(
    [ score |-> 0, label |-> "allow", platform |-> PlatformOf(options),
      flags |-> <<>> ],
    IF config.debug THEN [debug |-> debug] ELSE <<>>)

\* The result of the catch block; debug is what the try block had recorded.
ErrorResult(options, message, debug) ==
  ObjectAssign(
    [ score |-> 100,
      label |-> "block",
      platform |-> PlatformOf(options),
      flags |-> << [source |-> "rule", category |-> "error", weight |-> 100,
                    message |-> <<"Moderation error: ", message>>] >> ],
    IF config.debug THEN [debug |-> debug] ELSE <<>>)

\* NormalResult with the trace returned whatever config.debug: what C23
\* fails under.
NormalResultTraced(options, scoringResult, debug) ==
  [ score |-> scoringResult.score,
    label |-> scoringResult.label,
    platform |-> PlatformOf(options),
    flags |-> scoringResult.flags,
    debug |-> debug ]

\* The result of the try block from what calculateModerationScore returned:
\* Object.assign(debug, scoringResult.debug) when the latter is there.
NormalResult(options, scoringResult, debug) ==
  ObjectAssign(
    [ score |-> scoringResult.score,
      label |-> scoringResult.label,
      platform |-> PlatformOf(options),
      flags |-> scoringResult.flags ],
    IF config.debug
    THEN [debug |-> IF Has(scoringResult, "debug")
                    THEN ObjectAssign(debug, scoringResult.debug)
                    ELSE debug]
    ELSE <<>>)

moderateContent(text, media, options, world, fault, elapsed) ==
  IF ThrowsAt(text, media, world, fault) <= Len(Steps)
  THEN ErrorResult(options, fault,
         [providers |-> DebugProviders(text, media, world,
                                       ThrowsAt(text, media, world, fault)),
          timings |-> <<>>])
  ELSE NormalResult(options,
         calculateModerationScore(PipelineFlags(text, media, world),
                                  ContextOf(options), elapsed),
         [providers |-> DebugProviders(text, media, world, Len(Steps) + 1),
          timings |-> [total |-> elapsed]])

(***************************************************************************)
(* Inputs.  The flags, contexts and configurations the calls are made      *)
(* with: values of FlagSchema, ContextSchema and ConfigSchema.             *)
(***************************************************************************)
FlagPool ==
  { [source |-> "rule", category |-> "selfharm", weight |-> 40,
     message |-> <<"Matched phrase: ", "s">>],
    [source |-> "ml", category |-> "hate", weight |-> 37,
     message |-> <<"ML detection: ", "hate speech", " (", "93.0", "%)">>,
     confidence |-> Rat(93, 100), provider |-> "anthropic"],
    [source |-> "rule", category |-> "trusted", weight |-> -40,
     message |-> <<"Allow-listed author">>],
    [source |-> "rule", category |-> "spam", weight |-> 0,
     message |-> <<"Excessive punctuation">>] }

RECURSIVE SeqsUpTo(_, _)
SeqsUpTo(S, n) ==
  IF n = 0 THEN {<<>>}
  ELSE LET shorter == SeqsUpTo(S, n - 1)
       IN  shorter \cup { Append(s, x) : s \in shorter, x \in S }

FlagLists == SeqsUpTo(FlagPool, MaxFlags)

Ids(n) == [i \in 1..n |-> ToString(i)]

ContextPool ==
  { \* seven days old at hour 5, eight days old from hour 6 on
    [account |-> [createdAt |-> -186]],
    [account |-> [id |-> "a1", isVerified |-> TRUE, priorViolations |-> 3]],
    [postingHistory |-> [lastHourCount |-> 15, last24hCount |-> 60]],
    [network |-> [similarTextClusterIds |-> Ids(3)],
     crossPlatform |-> [similarPostHashes |-> Ids(2)]],
    [engagement |-> [replies |-> 0, likes |-> 2000, uniqueRepliers |-> 0]],
    [account |-> [createdAt |-> -19, priorViolations |-> 6],
     postingHistory |-> [lastHourCount |-> 20, last24hCount |-> 300],
     network |-> [similarTextClusterIds |-> Ids(6)],
     crossPlatform |-> [similarPostHashes |-> Ids(4)],
     engagement |-> [replies |-> 1, likes |-> 200]] }

Contexts == ContextPool \cup {undefined}

\* Date.now() - startTime of a call, in ms; only the debug trace shows it.
ElapsedTimes == IF config.debug THEN {0, 12} ELSE {0}

Configs ==
  { DefaultConfig,
    [DefaultConfig EXCEPT !.weights.ml = Whole(0), !.enableLLM = TRUE,
                          !.enableSupabase = TRUE,
                          !.supabase = [url |-> "https://db.example",
                                        anonKey |-> "key"]],
    [DefaultConfig EXCEPT !.debug = TRUE, !.enableLLM = TRUE,
                          !.enableRekognition = TRUE, !.enableSupabase = TRUE] }

\* "FREE money!!! Click https://bit.ly/abc now", a text with a phrase of the
\* hate list, and "report <a phrase of the violence list> http://example.com/a"
Texts ==
  { <<>>,
    << [kind |-> "scam", len |-> 13, caps |-> 4],
       [kind |-> "word", word |-> "click", len |-> 5, caps |-> 1],
       [kind |-> "url", host |-> "bit.ly", len |-> 18, caps |-> 0],
       [kind |-> "word", word |-> "now", len |-> 3, caps |-> 0] >>,
    << [kind |-> "phrase", list |-> "hate", phrase |-> "h", len |-> 6, caps |-> 0] >>,
    << [kind |-> "word", word |-> "report", len |-> 6, caps |-> 0],
       [kind |-> "phrase", list |-> "violence", phrase |-> "v", len |-> 7, caps |-> 0],
       [kind |-> "url", host |-> "example.com", len |-> 20, caps |-> 0] >> }

\* The NLP provider: not configured; answering; throwing.
Providers ==
  { [name |-> "anthropic", isEnabled |-> FALSE, result |-> [enabled |-> FALSE]],
    [name |-> "anthropic", isEnabled |-> TRUE,
     result |-> [enabled |-> TRUE,
                 categories |->
                   << [category |-> "hate", label |-> "hate speech",
                       confidence |-> Rat(93, 100)],
                      [category |-> "spam", label |-> "spam",
                       confidence |-> Rat(6, 10)],
                      [category |-> "scam", label |-> "scam",
                       confidence |-> Rat(8, 10)] >>]],
    [name |-> "anthropic", isEnabled |-> TRUE, result |-> [throws |-> TRUE]] }

Rekognition ==
  [isEnabled |-> TRUE,
   result |-> [enabled |-> TRUE,
               categories |->
                 << [category |-> "nsfw", label |-> "Explicit Nudity",
                     confidence |-> Rat(9, 10)],
                    [category |-> "violence", label |-> "Violence",
                     confidence |-> Rat(5, 10)] >>]]

\* No media; an image that cannot be fetched; a video whose keyframes
\* cannot be extracted; an image; a video of two keyframes, the vision
\* provider not configured for the second.
MediaCases ==
  { [media |-> undefined, asset |-> [fetch |-> FALSE, decode |-> FALSE]],
    [media |-> [type |-> "image", url |-> "https://cdn.example/1.jpg"],
     asset |-> [fetch |-> FALSE, decode |-> FALSE]],
    [media |-> [type |-> "video", url |-> "https://cdn.example/4.mp4"],
     asset |-> [fetch |-> FALSE, decode |-> FALSE]],
    [media |-> [type |-> "image", url |-> "https://cdn.example/2.jpg"],
     asset |-> [fetch |-> TRUE, decode |-> TRUE,
                hashes |-> [pHash |-> <<"1", "0", "1", "1">>,
                            dHash |-> <<"0", "1", "1", "0">>,
                            width |-> 8, height |-> 8],
                vision |-> Rekognition]],
    [media |-> [type |-> "video", url |-> "https://cdn.example/3.mp4"],
     asset |-> [fetch |-> TRUE, decode |-> TRUE,
                frames |->
                  << [hashes |-> [pHash |-> <<"1", "0", "1", "1">>,
                                  dHash |-> <<"0", "1", "1", "0">>,
                                  width |-> 8, height |-> 8],
                      vision |-> Rekognition],
                     [hashes |-> [pHash |-> <<"0", "0", "1", "1">>,
                                  dHash |-> <<"0", "1", "0", "0">>,
                                  width |-> 8, height |-> 8],
                      vision |-> [isEnabled |-> FALSE,
                                  result |-> [enabled |-> FALSE]]] >>]] }

OptionsPool ==
  { <<>>,
    [platform |-> "x"],
    [platform |-> "instagram"],
    [platform |-> "instagram",
     context |-> [postingHistory |-> [lastHourCount |-> 15, last24hCount |-> 60]]] }

Faults == {"none"} \cup {Steps[i] : i \in 1..Len(Steps)}

\* The score, label and flags of a result, and when the call was made.
Outcome(result, at) ==
  [score |-> result.score, label |-> result.label, flags |-> result.flags,
   at |-> at]

(***************************************************************************)
(* The state machine.  The callers are the CLI, the HTTP server and        *)
(* library users: they call moderateContent, or calculateModerationScore   *)
(* directly, one call at a time, and may repeat the call they made.        *)
(***************************************************************************)
Init ==
  /\ config \in Configs
  /\ now = 5
  /\ table = <<>>
  /\ storeUp = TRUE
  /\ call = [fn |-> "none"]
  /\ res = undefined
  /\ locals = undefined
  /\ prev = undefined

\* The clock advances by an hour.  Only a call reads the clock: the hours
\* that pass after the second call of a pair are not followed.
Tick ==
  /\ now < MaxClock
  /\ IF call.fn = "none" THEN TRUE ELSE call.rel = "first"
  /\ now' = now + 1
  /\ UNCHANGED <<config, table, storeUp, call, res, locals, prev>>

\* The caller has consumed the result: no call is in progress.
Release ==
  /\ call.fn # "none"
  /\ call' = [fn |-> "none"]
  /\ res' = undefined
  /\ locals' = undefined
  /\ prev' = undefined
  /\ UNCHANGED <<config, now, storeUp, table>>

\* A caller invokes calculateModerationScore(flags, context).
Score ==
  \E flags \in FlagLists, context \in Contexts, elapsed \in ElapsedTimes :
    /\ call.fn = "none"
    /\ call' = [fn |-> "calculateModerationScore", flags |-> flags,
                context |-> context, rel |-> "first", at |-> now]
    /\ res' = calculateModerationScore(flags, context, elapsed)
    /\ locals' = ScoreLocals(flags, context)
    /\ prev' = undefined
    /\ UNCHANGED <<config, now, storeUp, table>>

\* The caller repeats the call with the same arguments.
ScoreAgain ==
  \E elapsed \in ElapsedTimes :
    /\ call.fn = "calculateModerationScore"
    /\ call.rel = "first"
    /\ call' = [call EXCEPT !.rel = "repeat", !.at = now]
    /\ res' = calculateModerationScore(call.flags, call.context, elapsed)
    /\ locals' = ScoreLocals(call.flags, call.context)
    /\ prev' = Outcome(res, call.at)
    /\ UNCHANGED <<config, now, storeUp, table>>

\* The caller repeats the call with one more flag at the end of the list.
ScoreAppended ==
  \E flag \in FlagPool, elapsed \in ElapsedTimes :
    /\ call.fn = "calculateModerationScore"
    /\ call.rel = "first"
    /\ Len(call.flags) < MaxFlags
    /\ call' = [call EXCEPT !.flags = Append(call.flags, flag),
                            !.rel = "append", !.at = now]
    /\ res' = calculateModerationScore(Append(call.flags, flag), call.context, elapsed)
    /\ locals' = ScoreLocals(Append(call.flags, flag), call.context)
    /\ prev' = Outcome(res, call.at)
    /\ UNCHANGED <<config, now, storeUp, table>>

\* What a call of moderateContent leaves: its result, the locals of the
\* scoring call it made if it got that far, and the rows it saved.
ModerateEffect(text, media, options, world, fault, elapsed) ==
  /\ res' = moderateContent(text, media, options, world, fault, elapsed)
  /\ locals' = IF ThrowsAt(text, media, world, fault) <= Len(Steps)
               THEN undefined
               ELSE ScoreLocals(PipelineFlags(text, media, world), ContextOf(options))
  /\ table' = IF ThrowsAt(text, media, world, fault) <= 3
              THEN table
              ELSE saveMediaHash(MediaSaves(media, world.asset))

\* A caller invokes moderateContent(text, media, options).
Moderate ==
  \E text \in Texts, m \in MediaCases, options \in OptionsPool,
     provider \in Providers, fault \in Faults, elapsed \in ElapsedTimes :
    /\ call.fn = "none"
    /\ call' = [fn |-> "moderateContent", text |-> text, media |-> m.media,
                options |-> options,
                world |-> [provider |-> provider, asset |-> m.asset],
                fault |-> fault, rel |-> "first", at |-> now]
    /\ ModerateEffect(text, m.media, options,
                      [provider |-> provider, asset |-> m.asset], fault, elapsed)
    /\ Len(table') <= MaxRows
    /\ prev' = undefined
    /\ UNCHANGED <<config, now, storeUp>>

\* The caller repeats the call with the same arguments, the outside world
\* answering as before and no fault occurring this time.
ModerateAgain ==
  \E elapsed \in ElapsedTimes :
    /\ call.fn = "moderateContent"
    /\ call.rel = "first"
    /\ call.fault = "none"
    /\ call' = [call EXCEPT !.rel = "repeat", !.at = now]
    /\ ModerateEffect(call.text, call.media, call.options, call.world,
                      "none", elapsed)
    /\ Len(table') <= MaxRows
    /\ prev' = Outcome(res, call.at)
    /\ UNCHANGED <<config, now, storeUp>>

\* The NLP provider as a direct call finds it: as in Providers, or
\* answering enabled: false, or enabled: true with no categories.
DirectProviders ==
  Providers
    \cup { [name |-> "anthropic", isEnabled |-> TRUE, result |-> [enabled |-> FALSE]],
           [name |-> "anthropic", isEnabled |-> TRUE, result |-> [enabled |-> TRUE]] }

\* A caller invokes moderateTextWithML(text).
ModerateTextWithML ==
  \E text \in Texts \ {<<>>}, provider \in DirectProviders :
    /\ call.fn = "none"
    /\ call' = [fn |-> "moderateTextWithML", text |-> text, provider |-> provider,
                rel |-> "only", at |-> now]
    /\ res' = moderateTextWithML(text, provider)
    /\ UNCHANGED <<config, now, storeUp, table, locals, prev>>

Next ==
  \/ Tick
  \/ Release
  \/ Score
  \/ ScoreAgain
  \/ ScoreAppended
  \/ Moderate
  \/ ModerateAgain
  \/ ModerateTextWithML

Spec == Init /\ [][Next]_vars

(***************************************************************************)
(* Direct calls of the temporal analyzer, and calls of                     *)
(* calculateModerationScore with a context that holds a posting history    *)
(* only.                                                                   *)
(***************************************************************************)
\* PostingHistorySchema: both counts optional.
PostingHistories ==
  UNION { { h @@ d : d \in {<<>>} \cup {[last24hCount |-> n] : n \in {0, 50, 51, 300}} } :
          h \in {<<>>} \cup {[lastHourCount |-> n] : n \in {0, 10, 11, 20}} }

\* analyzeTemporalFeatures(postingHistory)
AnalyzeTemporalFeatures ==
  \E postingHistory \in PostingHistories :
    /\ call.fn = "none"
    /\ call' = [fn |-> "analyzeTemporalFeatures", postingHistory |-> postingHistory,
                rel |-> "only", at |-> now]
    /\ res' = analyzeTemporalFeatures(postingHistory)
    /\ UNCHANGED <<config, now, storeUp, table, locals, prev>>

\* getTemporalRiskMultiplier(features) of features/temporal.ts, for the
\* features analyzeTemporalFeatures returns.
GetTemporalRiskMultiplier ==
  \E postingHistory \in PostingHistories :
    /\ call.fn = "none"
    /\ call' = [fn |-> "getTemporalRiskMultiplier",
                features |-> analyzeTemporalFeatures(postingHistory).features,
                rel |-> "only", at |-> now]
    /\ res' = temporal_getTemporalRiskMultiplier(
                analyzeTemporalFeatures(postingHistory).features)
    /\ UNCHANGED <<config, now, storeUp, table, locals, prev>>

\* calculateModerationScore(flags, { postingHistory })
ScoreWithHistory ==
  \E flags \in {fl \in FlagLists : Len(fl) <= 1},
     postingHistory \in PostingHistories :
    /\ call.fn = "none"
    /\ call' = [fn |-> "calculateModerationScore", flags |-> flags,
                context |-> [postingHistory |-> postingHistory],
                rel |-> "only", at |-> now]
    /\ res' = calculateModerationScore(flags, [postingHistory |-> postingHistory], 0)
    /\ locals' = ScoreLocals(flags, [postingHistory |-> postingHistory])
    /\ UNCHANGED <<config, now, storeUp, table, prev>>

\* The process started with no environment variable set.
AnalyzerInit ==
  /\ config = DefaultConfig
  /\ now = 5
  /\ table = <<>>
  /\ storeUp = TRUE
  /\ call = [fn |-> "none"]
  /\ res = undefined
  /\ locals = undefined
  /\ prev = undefined

AnalyzerNext ==
  \/ Tick
  \/ Release
  \/ AnalyzeTemporalFeatures
  \/ GetTemporalRiskMultiplier
  \/ ScoreWithHistory

AnalyzerSpec == AnalyzerInit /\ [][AnalyzerNext]_vars

(***************************************************************************)
(* The same request under both values of the DEBUG environment variable.   *)
(* The configuration is read once, when the process starts, so the second  *)
(* run is made by a process started anew with the variable flipped; the    *)
(* rows of the hash store outlive the process.  Both runs are made in the  *)
(* same hour.                                                              *)
(***************************************************************************)
\* The process is started anew with DEBUG flipped, the caller keeping the
\* result of the call it made and about to make the call again.
Restart ==
  /\ call.fn = "moderateContent"
  /\ call.rel = "first"
  /\ call.fault = "none"
  /\ config' = [config EXCEPT !.debug = ~config.debug]
  /\ call' = [call EXCEPT !.rel = "restarted"]
  /\ prev' = res
  /\ res' = undefined
  /\ locals' = undefined
  /\ UNCHANGED <<now, table, storeUp>>

\* The caller makes the call again, the outside world answering as before.
ModerateRestarted ==
  /\ call.fn = "moderateContent"
  /\ call.rel = "restarted"
  /\ call' = [call EXCEPT !.rel = "debug"]
  /\ ModerateEffect(call.text, call.media, call.options, call.world, "none", 0)
  /\ Len(table') <= MaxRows
  /\ UNCHANGED <<config, now, storeUp, prev>>

RestartNext ==
  \/ Release
  \/ Moderate
  \/ Restart
  \/ ModerateRestarted

RestartSpec == Init /\ [][RestartNext]_vars

(***************************************************************************)
(* cli.ts: main.  args is what the command line and the standard input     *)
(* give: the text (of --text, or else of stdin, trimmed; <<>> when empty), *)
(* the values of --media-url, --media-type and --platform when present.    *)
(* The result carries the exit code of the process in exitCode; what the   *)
(* process prints is left out.                                             *)
(***************************************************************************)
\* main exiting with 1 for every label but allow: what C22 fails under.
exitCodeStrict(label) == IF label = "allow" THEN 0 ELSE 1

\* process.exit(result.label === 'block' ? 1 : 0)
exitCode(label) == IF label = "block" THEN 1 ELSE 0

\* media: the pair of --media-url and --media-type, when both are given.
CliMedia(args) ==
  IF Has(args, "mediaUrl") /\ Has(args, "mediaType")
  THEN [type |-> args.mediaType, url |-> args.mediaUrl]
  ELSE undefined

\* options: { platform }, generic unless --platform is given.
CliOptions(args) ==
  [platform |-> IF Has(args, "platform") THEN args.platform ELSE "generic"]

\* if (!text && !media)
UsageError(args) == ~HasText(args.text) /\ CliMedia(args) = undefined

\* The command lines: a text or none; no media argument, a url without a
\* type, or the url and type of a media of MediaCases; a platform or none.
CliArgs ==
  UNION { UNION { { [text |-> text] @@ m @@ p :
                      p \in {<<>>, [platform |-> "x"]} } :
                  m \in {<<>>, [mediaUrl |-> "https://cdn.example/1.jpg"]}
                        \cup { [mediaUrl |-> c.media.url, mediaType |-> c.media.type] :
                                 c \in {c \in MediaCases : c.media # undefined} } } :
          text \in Texts }

\* What the url of the command line yields.
CliAsset(args) ==
  IF CliMedia(args) = undefined THEN [fetch |-> FALSE, decode |-> FALSE]
  ELSE (CHOOSE c \in MediaCases : c.media = CliMedia(args)).asset

\* A run of the command.  stored is the table as the run found it.
Cli ==
  \E args \in CliArgs, provider \in Providers, fault \in {"none", "scoring"} :
    /\ call.fn = "none"
    /\ call' = [fn |-> "main", args |-> args,
                world |-> [provider |-> provider, asset |-> CliAsset(args)],
                fault |-> fault, rel |-> "only", at |-> now, stored |-> table]
    /\ IF UsageError(args)
       THEN /\ res' = [exitCode |-> 2]
            /\ locals' = undefined
            /\ table' = table
       ELSE /\ res' = With(moderateContent(args.text, CliMedia(args), CliOptions(args),
                                           [provider |-> provider,
                                            asset |-> CliAsset(args)], fault, 0),
                           "exitCode",
                           exitCode(moderateContent(args.text, CliMedia(args),
                                                    CliOptions(args),
                                                    [provider |-> provider,
                                                     asset |-> CliAsset(args)],
                                                    fault, 0).label))
            /\ locals' = IF ThrowsAt(args.text, CliMedia(args),
                                     [provider |-> provider, asset |-> CliAsset(args)],
                                     fault) <= Len(Steps)
                         THEN undefined
                         ELSE ScoreLocals(PipelineFlags(args.text, CliMedia(args),
                                            [provider |-> provider,
                                             asset |-> CliAsset(args)]),
                                          undefined)
            /\ table' = IF ThrowsAt(args.text, CliMedia(args),
                                    [provider |-> provider, asset |-> CliAsset(args)],
                                    fault) <= 3
                        THEN table
                        ELSE saveMediaHash(MediaSaves(CliMedia(args), CliAsset(args)))
    /\ Len(table') <= MaxRows
    /\ prev' = undefined
    /\ UNCHANGED <<config, now, storeUp>>

CliNext ==
  \/ Release
  \/ Cli

CliSpec == Init /\ [][CliNext]_vars

(***************************************************************************)
(* Direct calls of the exported functions of media/hashing.ts,             *)
(* media/image.ts, media/video.ts and detectors/mlText.ts, as the tests    *)
(* and library users make them, one call at a time.                        *)
(***************************************************************************)
Bits == {"0", "1"}

Hashes == UNION { [1..n -> Bits] : n \in 0..MaxHashLen }

\* HashResults: every pHash of the pool with a dHash that is the same or
\* empty, and the fallback of moderateImage.
HashResults ==
  UNION { { [pHash |-> p, dHash |-> d, width |-> 8, height |-> 8] :
              d \in {p, <<>>} } : p \in Hashes }
    \cup {fallbackHashes}

\* Thresholds handed to compareHashes; 0.15 is its default.
Thresholds == {Whole(0), Rat(15, 100), Rat(1, 2)}

DirectConfigs ==
  { DefaultConfig,
    [DefaultConfig EXCEPT !.enableLLM = TRUE, !.enableSupabase = TRUE,
                          !.supabase = [url |-> "https://db.example",
                                        anonKey |-> "key"],
                          !.thresholds.duplicate = Rat(1, 2)],
    [DefaultConfig EXCEPT !.enableRekognition = TRUE, !.debug = TRUE,
                          !.thresholds.duplicate = Whole(0)] }

DirectInit ==
  /\ config \in DirectConfigs
  /\ now = 5
  /\ table = <<>>
  /\ storeUp = TRUE
  /\ call = [fn |-> "none"]
  /\ res = undefined
  /\ locals = undefined
  /\ prev = undefined

\* hammingDistance(hash1, hash2)
HammingDistance ==
  \E hash1 \in Hashes, hash2 \in Hashes :
    /\ call.fn = "none"
    /\ call' = [fn |-> "hammingDistance", hash1 |-> hash1, hash2 |-> hash2,
                rel |-> "first"]
    /\ res' = IF hammingDistance(hash1, hash2) = -1 THEN [throws |-> TRUE]
              ELSE [value |-> hammingDistance(hash1, hash2)]
    /\ UNCHANGED <<config, now, storeUp, table, locals, prev>>

\* The caller calls hammingDistance again with the arguments swapped.
HammingDistanceSwapped ==
  /\ call.fn = "hammingDistance"
  /\ call.rel = "first"
  /\ call' = [fn |-> "hammingDistance", hash1 |-> call.hash2,
              hash2 |-> call.hash1, rel |-> "swapped"]
  /\ res' = IF hammingDistance(call.hash2, call.hash1) = -1 THEN [throws |-> TRUE]
            ELSE [value |-> hammingDistance(call.hash2, call.hash1)]
  /\ prev' = res
  /\ UNCHANGED <<config, now, storeUp, table, locals>>

\* compareHashes(hash1, hash2, threshold)
CompareHashes ==
  \E hash1 \in HashResults, hash2 \in HashResults, threshold \in Thresholds :
    /\ call.fn = "none"
    /\ call' = [fn |-> "compareHashes", hash1 |-> hash1, hash2 |-> hash2,
                threshold |-> threshold]
    /\ res' = compareHashes(hash1, hash2, threshold)
    /\ UNCHANGED <<config, now, storeUp, table, locals, prev>>

\* A hash of n bits, the first zeros of them 0 and the others 1.
HashOf(n, zeros) == [i \in 1..n |-> IF i <= zeros THEN "0" ELSE "1"]

Frame(pHash, vision) ==
  [hashes |-> [pHash |-> pHash, dHash |-> pHash, width |-> 8, height |-> 8],
   vision |-> vision]

\* What the url of an image yields: a failed fetch; bytes that cannot be
\* decoded; an image, with its hashes and the vision provider's answer.
ImageAssets ==
  { [fetch |-> FALSE, decode |-> FALSE], [fetch |-> TRUE, decode |-> FALSE] }
    \cup { [fetch |-> TRUE, decode |-> TRUE] @@ Frame(HashOf(MaxHashLen, z), Rekognition) :
             z \in {0, 1} }

\* What the url of a video yields: a failed keyframe extraction; two
\* keyframes, the vision provider not configured for the second.
VideoAssets ==
  { [fetch |-> FALSE, decode |-> FALSE],
    [fetch |-> TRUE, decode |-> TRUE,
     frames |-> << Frame(HashOf(MaxHashLen, 0), Rekognition),
                   Frame(HashOf(MaxHashLen, MaxHashLen),
                         [isEnabled |-> FALSE, result |-> [enabled |-> FALSE]]) >>] }

\* The hashes a caller passes as existingHashes: hashes of the length the
\* assets have, and one that is a bit shorter.
CandidatePool ==
  {h \in Hashes : Len(h) = MaxHashLen} \cup {HashOf(MaxHashLen - 1, 0)}

\* existingHashes: absent or empty, one hash, two hashes.
CandidateLists ==
  {<<>>} \cup {<<a>> : a \in CandidatePool}
         \cup {<<a, b>> : a \in CandidatePool, b \in CandidatePool}

\* moderateImage(media, existingHashes); stored is the table as the call
\* found it.
ModerateImage ==
  \E asset \in ImageAssets, existingHashes \in CandidateLists :
    /\ call.fn = "none"
    /\ call' = [fn |-> "moderateImage",
                media |-> [type |-> "image", url |-> "https://cdn.example/2.jpg"],
                existingHashes |-> existingHashes, asset |-> asset,
                stored |-> table]
    /\ res' = moderateImage([type |-> "image", url |-> "https://cdn.example/2.jpg"],
                            existingHashes, asset)
    /\ table' = saveMediaHash(ImageSaves(
                   [type |-> "image", url |-> "https://cdn.example/2.jpg"],
                   existingHashes, asset))
    /\ Len(table') <= MaxRows
    /\ UNCHANGED <<config, now, storeUp, locals, prev>>

\* moderateVideo(media, existingHashes)
ModerateVideo ==
  \E asset \in VideoAssets, existingHashes \in CandidateLists :
    /\ call.fn = "none"
    /\ call' = [fn |-> "moderateVideo",
                media |-> [type |-> "video", url |-> "https://cdn.example/3.mp4"],
                existingHashes |-> existingHashes, asset |-> asset,
                stored |-> table]
    /\ res' = moderateVideo([type |-> "video", url |-> "https://cdn.example/3.mp4"],
                            existingHashes, asset)
    /\ table' = saveMediaHash(VideoSaves(
                   [type |-> "video", url |-> "https://cdn.example/3.mp4"],
                   existingHashes, asset))
    /\ Len(table') <= MaxRows
    /\ UNCHANGED <<config, now, storeUp, locals, prev>>

\* The hash store stops answering between two calls: its requests fail.
StoreFails ==
  /\ call.fn = "none"
  /\ storeUp
  /\ storeUp' = FALSE
  /\ UNCHANGED <<config, now, table, call, res, locals, prev>>

\* The hash store answers again.
StoreRecovers ==
  /\ call.fn = "none"
  /\ ~storeUp
  /\ storeUp' = TRUE
  /\ UNCHANGED <<config, now, table, call, res, locals, prev>>

DirectNext ==
  \/ Release
  \/ ModerateImage
  \/ ModerateVideo
  \/ StoreFails
  \/ StoreRecovers

DirectSpec == DirectInit /\ [][DirectNext]_vars

(***************************************************************************)
(* Direct calls of the functions that read neither the configuration nor   *)
(* the store: hammingDistance, compareHashes, mergeMLAndRuleFlags and      *)
(* applyWhitelistRules.                                                    *)
(***************************************************************************)
PureInit ==
  /\ config = DefaultConfig
  /\ now = 5
  /\ table = <<>>
  /\ storeUp = TRUE
  /\ call = [fn |-> "none"]
  /\ res = undefined
  /\ locals = undefined
  /\ prev = undefined

\* Flags as moderateTextWithML makes them.
MLFlagPool ==
  { [source |-> "ml", category |-> "hate", weight |-> 37,
     message |-> <<"ML detection: ", "hate speech", " (", "93.0", "%)">>,
     confidence |-> Rat(93, 100), provider |-> "anthropic"],
    [source |-> "ml", category |-> "spam", weight |-> 25,
     message |-> <<"ML detection: ", "spam", " (", "62.5", "%)">>,
     confidence |-> Rat(625, 1000), provider |-> "anthropic"],
    [source |-> "ml", category |-> "scam", weight |-> 32,
     message |-> <<"ML detection: ", "scam", " (", "80.0", "%)">>,
     confidence |-> Rat(8, 10), provider |-> "anthropic"] }

\* Flags as the rule-based detectors make them.
RuleFlagPool ==
  { [source |-> "rule", category |-> "hate", weight |-> 28,
     message |-> <<"Matched phrase: ", "h">>],
    [source |-> "rule", category |-> "spam", weight |-> 0,
     message |-> <<"Excessive punctuation">>],
    [source |-> "rule", category |-> "selfharm", weight |-> 40,
     message |-> <<"Matched phrase: ", "s">>] }

\* The ML flags as the caller finds them after mergeMLAndRuleFlags: the
\* function assigns to no property of them, the reinforced flag being a
\* copy ({ ...mlFlag, weight, message }).
MLFlagsAfterMerge(mlFlags, ruleFlags) == mlFlags

\* mergeMLAndRuleFlags(mlFlags, ruleFlags)
MergeMLAndRuleFlags ==
  \E mlFlags \in SeqsUpTo(MLFlagPool, MaxFlags),
     ruleFlags \in SeqsUpTo(RuleFlagPool, MaxFlags) :
    /\ call.fn = "none"
    /\ call' = [fn |-> "mergeMLAndRuleFlags", mlFlags |-> mlFlags,
                ruleFlags |-> ruleFlags,
                mlFlagsAfter |-> MLFlagsAfterMerge(mlFlags, ruleFlags)]
    /\ res' = mergeMLAndRuleFlags(mlFlags, ruleFlags)
    /\ UNCHANGED <<config, now, storeUp, table, locals, prev>>

\* Flags of categories the whitelist patterns list, and one of a category
\* they do not: violence is listed by two of the patterns.
WhitelistFlagPool ==
  { [source |-> "rule", category |-> "violence", weight |-> 30,
     message |-> <<"Matched phrase: ", "v">>],
    [source |-> "rule", category |-> "scam", weight |-> 15,
     message |-> <<"Scam phrase detected">>],
    [source |-> "ml", category |-> "sexual", weight |-> 37,
     message |-> <<"ML detection: ", "sexual", " (", "93.0", "%)">>,
     confidence |-> Rat(93, 100), provider |-> "anthropic"],
    [source |-> "rule", category |-> "spam", weight |-> 10,
     message |-> <<"Excessive punctuation">>] }

Word(w) == [kind |-> "word", word |-> w, len |-> 6, caps |-> 0]

\* "hello", "report", "report study", "warning"
WhitelistTexts ==
  { <<Word("hello")>>, <<Word("report")>>, <<Word("report"), Word("study")>>,
    <<Word("warning")>> }

\* applyWhitelistRules(flags, text)
ApplyWhitelistRules ==
  \E flags \in SeqsUpTo(WhitelistFlagPool, MaxFlags), text \in WhitelistTexts :
    /\ call.fn = "none"
    /\ call' = [fn |-> "applyWhitelistRules", flags |-> flags, text |-> text]
    /\ res' = applyWhitelistRules(flags, text)
    /\ UNCHANGED <<config, now, storeUp, table, locals, prev>>

PureNext ==
  \/ Release
  \/ HammingDistance
  \/ HammingDistanceSwapped
  \/ CompareHashes
  \/ MergeMLAndRuleFlags
  \/ ApplyWhitelistRules

PureSpec == PureInit /\ [][PureNext]_vars

(***************************************************************************)
(* Properties.  Helpers first: what the state says about the last call.    *)
(***************************************************************************)
IsScore == call.fn = "calculateModerationScore"

IsModerate == call.fn = "moderateContent"

\* The call got as far as returning from calculateModerationScore.
Scored == call.fn # "none" /\ locals # undefined

\* The context the call handed to calculateModerationScore.
CallContext == IF IsScore THEN call.context ELSE ContextOf(call.options)

RatEq(x, y) == x.n * y.d = y.n * x.d

\* The sum of adjustedWeight over a flag list.
AdjustedSum(flags) == RatSum([i \in 1..Len(flags) |-> flags[i].adjustedWeight])

\* allow < review < block
Rank(label) == CASE label = "allow" -> 0 [] label = "review" -> 1 [] label = "block" -> 2

\* The sub-object(s) of the context that analyzer k reads is there.
Present(k, context) ==
  CASE k = "account" -> Has(context, "account")
    [] k = "temporal" -> Has(context, "postingHistory")
    [] k = "network" -> Has(context, "network") \/ Has(context, "crossPlatform")
    [] k = "engagement" -> Has(context, "engagement")

\* The categories of the flags analyzer k can produce.
CategoriesOf(k) ==
  CASE k = "account" -> {"new_account", "repeat_violator", "prior_violations",
                         "unverified_account", "verified_account"}
    [] k = "temporal" -> {"burst_posting", "high_volume", "unusual_timing"}
    [] k = "network" -> {"content_clustering", "cross_platform_spam"}
    [] k = "engagement" -> {"low_engagement", "high_quality_engagement",
                            "coordinated_engagement", "suspicious_engagement"}

Analyzers == {"account", "temporal", "network", "engagement"}

\* C1: whatever the flags (weights of any sign, any sources) and the
\* context, the score calculateModerationScore returns, and so the score
\* moderateContent returns, is an integer from 0 to 100.
C1_ScoreInRange == (IsScore \/ IsModerate) => res.score \in 0..100

\* C1 witness: a direct call whose product of base score and multipliers is
\* below 0, and a score of 0 returned.
C1_Witness ==
  /\ IsScore
  /\ call.context # undefined
  /\ RatLt(locals.product, Whole(0))
  /\ res.score = 0

\* C2: the label follows from the clamped, not yet rounded, final score:
\* block iff it is >= the block threshold, review iff it is >= the review
\* threshold and < the block threshold, allow otherwise; so exactly one of
\* the three labels is returned.
C2_LabelFromUnrounded ==
  Scored =>
    /\ res.label \in {"allow", "review", "block"}
    /\ res.label = "block"
         <=> RatGeq(locals.finalScore, Whole(config.thresholds.block))
    /\ res.label = "review"
         <=> /\ RatGeq(locals.finalScore, Whole(config.thresholds.review))
             /\ RatLt(locals.finalScore, Whole(config.thresholds.block))
    /\ res.label = "allow"
         <=> RatLt(locals.finalScore, Whole(config.thresholds.review))
    /\ RatEq(locals.finalScore,
             MathMin(MathMax(locals.product, Whole(0)), Whole(100)))

\* C2 witness: the final score rounds up to the review threshold, and the
\* label is allow.
C2_Witness ==
  /\ IsScore
  /\ res.score = config.thresholds.review
  /\ RatLt(locals.finalScore, Whole(config.thresholds.review))
  /\ res.label = "allow"

\* C3 as stated: with a context, the base score is the sum of adjustedWeight
\* over every flag of the returned list, the analyzers' flags included.
C3_AnalyzerFlagsInBase ==
  (IsScore /\ call.context # undefined)
    => RatEq(locals.baseScore, AdjustedSum(res.flags))

\* C4: the final score before clamping is the base score times the
\* account, temporal, network and engagement multipliers, the multiplier of
\* an analyzer whose sub-object is absent being exactly 1 and that analyzer
\* contributing no flags; with no context the final score is the base score.
C4_ProductOfMultipliers ==
  Scored =>
    /\ DOMAIN locals.featureMultipliers
         = {k \in Analyzers : Present(k, CallContext)}
    /\ RatEq(locals.product,
             RatMul(locals.baseScore,
               RatProduct([i \in 1..4 |->
                 IF Present(MultiplierOrder[i], CallContext)
                 THEN locals.featureMultipliers[MultiplierOrder[i]]
                 ELSE Whole(1)])))
    /\ \A k \in Analyzers :
         ~Present(k, CallContext)
           => \A i \in Len(locals.weightedFlags) + 1 .. Len(res.flags) :
                res.flags[i].category \notin CategoriesOf(k)
    /\ CallContext = undefined
         => /\ RatEq(locals.product, locals.baseScore)
            /\ Len(res.flags) = Len(locals.weightedFlags)

\* C4 witness: a context with network data and no account, a base score
\* that is not 0 and a product that differs from it.
C4_Witness ==
  /\ IsScore
  /\ Present("network", call.context)
  /\ ~Present("account", call.context)
  /\ ~RatEq(locals.baseScore, Whole(0))
  /\ ~RatEq(locals.product, locals.baseScore)

\* C5 as stated: the decision is platform-aware.  The thresholds compared
\* with the final score are those of the request's platform in PLATFORMS,
\* and the platform's weight for a flag's category multiplies the flag's
\* adjustedWeight.
C5_PlatformAware ==
  (IsModerate /\ Scored) =>
    /\ res.label = LabelFor(locals.finalScore, PLATFORMS[res.platform].thresholds)
    /\ \A i \in 1..Len(res.flags) :
         RatEq(res.flags[i].adjustedWeight,
               RatMul(RatMul(Whole(res.flags[i].weight),
                             SourceWeight(res.flags[i].source)),
                      IF res.flags[i].category
                           \in DOMAIN PLATFORMS[res.platform].weights
                      THEN PLATFORMS[res.platform].weights[res.flags[i].category]
                      ELSE Whole(1)))

\* C6 as stated: whatever the configured weight of a flag's source, 0
\* included, the flag's adjustedWeight is its weight times that weight.
C6_AdjustedWeight ==
  Scored =>
    \A i \in 1..Len(res.flags) :
      RatEq(res.flags[i].adjustedWeight,
            RatMul(Whole(res.flags[i].weight),
                   config.weights[res.flags[i].source]))

\* C7: when a step of the pipeline throws, moderateContent returns label
\* block, score 100 and exactly one flag, of source rule, category error and
\* weight 100: never a result labelled allow or review.
C7_FailClosed ==
  (IsModerate
   /\ ThrowsAt(call.text, call.media, call.world, call.fault) <= Len(Steps))
    => /\ res.score = 100
       /\ res.label = "block"
       /\ Len(res.flags) = 1
       /\ res.flags[1].source = "rule"
       /\ res.flags[1].category = "error"
       /\ res.flags[1].weight = 100

\* C7 witness: scoring throws for a request with no text and no media,
\* which would otherwise be allowed, and the result is the error block.
C7_Witness ==
  /\ IsModerate
  /\ call.fault = "scoring"
  /\ call.text = <<>>
  /\ call.media = undefined
  /\ res.label = "block"
  /\ res.flags[1].category = "error"

NonNegative(flags) == \A i \in 1..Len(flags) : flags[i].weight >= 0

Clamp(k) == IF k < 0 THEN 0 ELSE IF k > 100 THEN 100 ELSE k

\* C8: for a flag list of zero-or-positive weights and no context, the
\* score is clamp(round(sum of adjustedWeight), 0, 100), and appending one
\* more zero-or-positive-weight flag lowers neither the score nor the label
\* (allow < review < block).  The configured source weights are not
\* negative in any configuration examined.
C8_Monotone ==
  (IsScore /\ call.context = undefined /\ NonNegative(call.flags)) =>
    /\ res.score = Clamp(MathRound(AdjustedSum(res.flags)))
    /\ call.rel = "append"
         => /\ res.score >= prev.score
            /\ Rank(res.label) >= Rank(prev.label)

\* C8 witness: a flag appended to such a list raised the score and moved
\* the label up.
C8_Witness ==
  /\ IsScore
  /\ call.rel = "append"
  /\ call.context = undefined
  /\ NonNegative(call.flags)
  /\ res.score > prev.score
  /\ Rank(res.label) > Rank(prev.label)

\* The call is the second of two with the same arguments.
Repeated == call.fn # "none" /\ call.rel = "repeat"

SameOutcome ==
  /\ res.score = prev.score
  /\ res.label = prev.label
  /\ res.flags = prev.flags

\* The context has a field that holds a time.
HasCreatedAt(context) ==
  Has(context, "account") /\ Has(context.account, "createdAt")

ReadsStore == IsModerate /\ call.media # undefined /\ supabaseEnabled

C10_AdjustedWeightPopulated ==
  IsModerate => \A i \in 1..Len(res.flags) : Has(res.flags[i], "adjustedWeight")

\* The number of positions at which two strings of one length differ.
Differing(a, b) == Cardinality({i \in 1..Len(a) : a[i] # b[i]})

\* C11: for hashes a and b of one length, hammingDistance(a, b) is the
\* number of positions at which they differ, it is 0 when b is a, and
\* hammingDistance(b, a) returns the same.
C11_HammingDistance ==
  (call.fn = "hammingDistance" /\ Len(call.hash1) = Len(call.hash2)) =>
    /\ res = [value |-> Differing(call.hash1, call.hash2)]
    /\ call.hash1 = call.hash2 => res.value = 0
    /\ call.rel = "swapped" => res = prev

\* C11 witness: two hashes that differ at one of their positions, compared
\* in both orders.
C11_Witness ==
  /\ call.fn = "hammingDistance"
  /\ call.rel = "swapped"
  /\ Len(call.hash1) = MaxHashLen
  /\ res = [value |-> 1]
  /\ prev = [value |-> 1]

\* C12 as stated: for every HashResult h, the fallback with its empty
\* hashes included, and every threshold >= 0, compareHashes(h, h, threshold)
\* has isDuplicate true.
C12_SelfDuplicate ==
  (call.fn = "compareHashes" /\ call.hash1 = call.hash2) => res.isDuplicate

\* The call is a direct call of moderateImage or moderateVideo whose asset
\* was fetched and decoded.
IsMediaCall ==
  /\ call.fn \in {"moderateImage", "moderateVideo"}
  /\ call.asset.fetch
  /\ call.asset.decode

\* The hashes of the rows of a type among the given rows, newest first.
StoredHashes(rows, type) ==
  Reverse(SeqMap(LAMBDA r : r.hash, SelectSeq(rows, LAMBDA r : r.type = type)))

\* The candidates the call scanned, in the order of the scan.
Candidates ==
  IF call.fn = "moderateImage"
  THEN (IF config.enableSupabase /\ storeUp
        THEN StoredHashes(call.stored, "image") ELSE <<>>)
       \o call.existingHashes
  ELSE call.existingHashes
       \o (IF config.enableSupabase /\ storeUp
           THEN StoredHashes(call.stored, "video") ELSE <<>>)

\* The pHash of each frame of the asset; an image is its only frame.
FrameHashes ==
  IF call.fn = "moderateImage" THEN <<call.asset.hashes.pHash>>
  ELSE [i \in 1..Len(call.asset.frames) |-> call.asset.frames[i].hashes.pHash]

\* hammingDistance / hashLength <= the duplicate threshold
WithinThreshold(pHash, candidate) ==
  /\ Len(candidate) = Len(pHash)
  /\ Differing(pHash, candidate) * config.thresholds.duplicate.d
       <= config.thresholds.duplicate.n * Len(pHash)

\* The duplicate flags of the result for frame k.
DuplicateFlags(k) ==
  SelectSeq(res.flags,
            LAMBDA f : /\ f.category = "duplicate"
                       /\ IF call.fn = "moderateImage" THEN TRUE
                          ELSE f.frameIndex = k - 1)

SameLengths ==
  \A k \in 1..Len(FrameHashes), i \in 1..Len(Candidates) :
    Len(Candidates[i]) = Len(FrameHashes[k])

\* C13: with candidates of the pHash's length, an image or a keyframe gets
\* a duplicate flag iff some candidate has hammingDistance / hashLength <=
\* the configured duplicate threshold, the boundary included; the hash
\* reported as the duplicate is within the threshold.
C13_MatchIffWithin ==
  (IsMediaCall /\ SameLengths) =>
    \A k \in 1..Len(FrameHashes) :
      /\ DuplicateFlags(k) # <<>>
           <=> \E i \in 1..Len(Candidates) :
                 WithinThreshold(FrameHashes[k], Candidates[i])
      /\ call.fn = "moderateImage" /\ Has(res, "duplicateHash")
           => WithinThreshold(FrameHashes[k], res.duplicateHash)

\* C13 witness: an image whose only candidates are one exactly at the
\* threshold and one above it, and a duplicate flag.
C13_Witness ==
  /\ call.fn = "moderateImage"
  /\ IsMediaCall
  /\ SameLengths
  /\ Len(Candidates) = 2
  /\ Differing(FrameHashes[1], Candidates[1]) = Len(FrameHashes[1])
  /\ Differing(FrameHashes[1], Candidates[2]) * config.thresholds.duplicate.d
       = config.thresholds.duplicate.n * Len(FrameHashes[1])
  /\ Differing(FrameHashes[1], Candidates[2]) > 0
  /\ DuplicateFlags(1) # <<>>

\* Candidate i is the first of the scan within the threshold of frame k.
FirstWithin(k, i) ==
  /\ WithinThreshold(FrameHashes[k], Candidates[i])
  /\ \A j \in 1..(i - 1) : ~WithinThreshold(FrameHashes[k], Candidates[j])

\* 1 - normalizedDistance of candidate i for frame k
SimilarityTo(k, i) ==
  Rat(Len(FrameHashes[k]) - Differing(FrameHashes[k], Candidates[i]),
      Len(FrameHashes[k]))

\* C14: the scan stops at the first candidate within the threshold: an
\* image, and each keyframe of a video on its own, gets at most one
\* duplicate flag, so a video at most as many as it has keyframes; the flag
\* has source metadata, weight 20, the pHash of the image or keyframe, the
\* confidence 1 - normalizedDistance of the first candidate within the
\* threshold, and for a video the keyframe's frameIndex; the hash reported
\* as the duplicate is that first candidate.
C14_FirstMatch ==
  IsMediaCall =>
    /\ \A k \in 1..Len(FrameHashes) :
         /\ Len(DuplicateFlags(k)) <= 1
         /\ DuplicateFlags(k) # <<>> =>
              /\ DuplicateFlags(k)[1].source = "metadata"
              /\ DuplicateFlags(k)[1].weight = 20
              /\ DuplicateFlags(k)[1].mediaHash = FrameHashes[k]
              /\ \E i \in 1..Len(Candidates) :
                   /\ FirstWithin(k, i)
                   /\ DuplicateFlags(k)[1].confidence = SimilarityTo(k, i)
                   /\ call.fn = "moderateImage" => res.duplicateHash = Candidates[i]
    /\ \A n \in 1..Len(res.flags) :
         (res.flags[n].category = "duplicate" /\ call.fn = "moderateVideo")
           => res.flags[n].frameIndex \in 0..(Len(FrameHashes) - 1)
    /\ Len(SelectSeq(res.flags, LAMBDA f : f.category = "duplicate"))
         <= Len(FrameHashes)

\* C14 witness: an image with two candidates within the threshold, the
\* second closer than the first, and the flag made for the first.
C14_Witness ==
  /\ call.fn = "moderateImage"
  /\ IsMediaCall
  /\ SameLengths
  /\ Len(Candidates) = 2
  /\ FirstWithin(1, 1)
  /\ WithinThreshold(FrameHashes[1], Candidates[2])
  /\ Differing(FrameHashes[1], Candidates[2])
       < Differing(FrameHashes[1], Candidates[1])
  /\ DuplicateFlags(1) # <<>>
  /\ DuplicateFlags(1)[1].confidence = SimilarityTo(1, 1)

\* The categories of the provider's answer to the call.
Detections == call.provider.result.categories

\* confidence > 0.6
AboveMLGate(d) == d.confidence.n * 10 > 6 * d.confidence.d

\* C15: when the provider answers, moderateTextWithML makes a flag of a
\* category iff its confidence is strictly greater than 0.6: the flags are
\* those categories in the provider's order, each with source ml, the
\* category's name, weight round(confidence x 40) and the same confidence.
C15_MLGate ==
  (call.fn = "moderateTextWithML" /\ res.enabled) =>
    /\ Len(res.flags) = Len(SelectSeq(Detections, AboveMLGate))
    /\ \A i \in 1..Len(res.flags) :
         /\ res.flags[i].source = "ml"
         /\ res.flags[i].category = SelectSeq(Detections, AboveMLGate)[i].category
         /\ res.flags[i].confidence = SelectSeq(Detections, AboveMLGate)[i].confidence
         /\ res.flags[i].weight
              = MathRound(RatMul(SelectSeq(Detections, AboveMLGate)[i].confidence,
                                 Whole(40)))
    /\ \A k \in 1..Len(Detections) :
         ~AboveMLGate(Detections[k])
           => \A i \in 1..Len(res.flags) :
                res.flags[i].category # Detections[k].category

\* C15 witness: the provider reports a category at exactly 0.6 and others
\* above it, and only the others are flagged.
C15_Witness ==
  /\ call.fn = "moderateTextWithML"
  /\ res.enabled
  /\ \E k \in 1..Len(Detections) : Detections[k].confidence = Rat(6, 10)
  /\ Len(res.flags) = Len(Detections) - 1
  /\ res.flags[1].weight = 37

\* The flag mergeMLAndRuleFlags is to append for an ML flag.
Reinforced(mlFlag, ruleFlags) ==
  IF \E i \in 1..Len(ruleFlags) : ruleFlags[i].category = mlFlag.category
  THEN [mlFlag EXCEPT !.weight = (2 * 7 * @ + 10) \div 20,
                      !.message = Append(@, " (reinforced by rules)")]
  ELSE mlFlag

\* C16: mergeMLAndRuleFlags returns the rule flags, unchanged and in order,
\* followed by one flag per ML flag, in order: the ML flag with weight
\* round(0.7 x weight) and " (reinforced by rules)" added to its message
\* when a rule flag has its category, the ML flag itself otherwise; the ML
\* flags handed in are as they were.
C16_Merge ==
  call.fn = "mergeMLAndRuleFlags" =>
    /\ Len(res) = Len(call.ruleFlags) + Len(call.mlFlags)
    /\ SubSeq(res, 1, Len(call.ruleFlags)) = call.ruleFlags
    /\ \A i \in 1..Len(call.mlFlags) :
         res[Len(call.ruleFlags) + i] = Reinforced(call.mlFlags[i], call.ruleFlags)
    /\ call.mlFlagsAfter = call.mlFlags

\* C16 witness: two ML flags, the first of a category the rules flagged,
\* of weight 37 and kept with weight 26, the second of another category.
C16_Witness ==
  /\ call.fn = "mergeMLAndRuleFlags"
  /\ Len(call.mlFlags) = 2
  /\ Len(call.ruleFlags) > 0
  /\ call.mlFlags[1].weight = 37
  /\ res[Len(call.ruleFlags) + 1].weight = 26
  /\ res[Len(call.ruleFlags) + 2] = call.mlFlags[2]

\* Some whitelist pattern lists the category and matches the text.
Whitelisted(category, text) ==
  \E p \in 1..Len(whitelistPatterns) :
    /\ category \in whitelistPatterns[p].categories
    /\ \E i \in 1..Len(text) :
         text[i].kind = "word" /\ text[i].word \in whitelistPatterns[p].pattern

\* C17: applyWhitelistRules returns as many flags as it was given, in the
\* same order and of the same source and category; the weight of a flag
\* whose category a matching pattern lists is round(weight x 0.5), taken
\* once even when two matching patterns list the category, and the weight
\* of every other flag is as it was.
C17_WhitelistKeeps ==
  call.fn = "applyWhitelistRules" =>
    /\ Len(res) = Len(call.flags)
    /\ \A i \in 1..Len(call.flags) :
         /\ res[i].source = call.flags[i].source
         /\ res[i].category = call.flags[i].category
         /\ res[i].weight
              = IF Whitelisted(call.flags[i].category, call.text)
                THEN (call.flags[i].weight + 1) \div 2
                ELSE call.flags[i].weight

\* C17 witness: a violence flag of weight 30 and a text that both patterns
\* listing violence match; the flag is returned with weight 15, next to a
\* flag that keeps its weight.
C17_Witness ==
  /\ call.fn = "applyWhitelistRules"
  /\ Len(call.text) = 2
  /\ Len(call.flags) = 2
  /\ call.flags[1].category = "violence"
  /\ res[1].weight = 15
  /\ res[2].weight = call.flags[2].weight

\* The provider gives moderateTextWithML nothing: ML is switched off, the
\* provider is not configured, its call throws, or it answers enabled: false.
MLUnavailable(provider) ==
  IF ~config.enableLLM \/ ~provider.isEnabled THEN TRUE
  ELSE IF Has(provider.result, "throws") THEN TRUE
  ELSE ~provider.result.enabled

\* The flags of the call's pipeline when ML is off: the rule flags and the
\* media flags, after the whitelist pass.
FlagsWithoutML ==
  IF HasText(call.text)
  THEN applyWhitelistRules(runRuleBasedDetectors(call.text)
                           \o MediaFlags(call.media, call.world.asset), call.text)
  ELSE MediaFlags(call.media, call.world.asset)

\* What calculateModerationScore returns for value.
ScoreOf(flags) == calculateModerationScore(flags, ContextOf(call.options), 0)

SameAs(scoringResult) ==
  /\ res.score = scoringResult.score
  /\ res.label = scoringResult.label
  /\ res.flags = scoringResult.flags

\* C18: when ML is disabled, the provider is not configured, or the
\* provider's call fails, moderateTextWithML returns enabled = false and no
\* flags, and moderateContent (no other step throwing) returns the score,
\* label and flags it returns with ML off: those of the rule and media
\* flags alone.  The comparison is made at the hour of the call and for a
\* call that does not read the hash store, whose rows the call changes.
C18_MLUnavailable ==
  /\ (call.fn = "moderateTextWithML" /\ MLUnavailable(call.provider))
       => res.enabled = FALSE /\ res.flags = <<>>
  /\ (/\ IsModerate
      /\ call.fault = "none"
      /\ MLUnavailable(call.world.provider)
      /\ ~ReadsStore
      /\ call.at = now)
       => SameAs(ScoreOf(FlagsWithoutML))

\* C18 witness: ML is on, the provider's call throws, the text has rule
\* flags, and moderateContent returns them and a label that is not block.
C18_Witness ==
  /\ IsModerate
  /\ call.fault = "none"
  /\ config.enableLLM
  /\ call.world.provider.isEnabled
  /\ Has(call.world.provider.result, "throws")
  /\ call.at = now
  /\ ~ReadsStore
  /\ Len(res.flags) > 0
  /\ \A i \in 1..Len(res.flags) : res.flags[i].source = "rule"
  /\ res.label # "block"

\* The url of the call's media yields nothing: the fetch, the decoding or
\* the keyframe extraction fails.
MediaFails ==
  /\ IsModerate
  /\ call.media # undefined
  /\ ~call.world.asset.fetch \/ ~call.world.asset.decode

\* The flags of the call's pipeline for the same text and no media.
FlagsWithoutMedia == PipelineFlags(call.text, undefined, call.world)

\* C19: when the media cannot be fetched or decoded, or its keyframes
\* cannot be extracted, moderateImage and moderateVideo return no flags, and
\* moderateContent (no other step throwing) returns no error block but the
\* score, label and flags it returns for the same text without media.  The
\* comparison is made at the hour of the call.
C19_MediaFailure ==
  (MediaFails /\ call.fault = "none") =>
    /\ MediaFlags(call.media, call.world.asset) = <<>>
    /\ \A i \in 1..Len(res.flags) : res.flags[i].category # "error"
    /\ call.at = now => SameAs(ScoreOf(FlagsWithoutMedia))

\* C19 witness: the keyframes of a video cannot be extracted, the text has
\* flags, and moderateContent returns them with a label that is not block.
C19_Witness ==
  /\ MediaFails
  /\ call.fault = "none"
  /\ call.media.type = "video"
  /\ call.at = now
  /\ Len(res.flags) > 0
  /\ res.label # "block"

\* The vision provider gives nothing for an image or a keyframe: it is not
\* configured, its call throws, or it answers enabled: false.
VisionUnavailable(vision) ==
  IF ~vision.isEnabled THEN TRUE
  ELSE IF Has(vision.result, "throws") THEN TRUE
  ELSE ~vision.result.enabled

\* The vision source of the call is skipped or fails: vision is switched
\* off, the media cannot be fetched, or the provider is unavailable for the
\* image or for one of the keyframes.
VisionSkipped ==
  IF ~config.enableRekognition \/ MediaFails THEN TRUE
  ELSE IF call.media.type = "image" THEN VisionUnavailable(call.world.asset.vision)
  ELSE \E i \in 1..Len(call.world.asset.frames) :
         VisionUnavailable(call.world.asset.frames[i].vision)

\* C20 as stated: with debug on, a source that was skipped or that failed
\* (the ML provider for a text, the vision provider or the fetch for a
\* media) is recorded in debug.providers as disabled or error, never as
\* enabled.
C20_DegradedVisible ==
  (IsModerate /\ call.fault = "none" /\ config.debug) =>
    /\ (HasText(call.text) /\ MLUnavailable(call.world.provider))
         => /\ DOMAIN res.debug.providers \ {"vision"} # {}
            /\ \A k \in DOMAIN res.debug.providers \ {"vision"} :
                 res.debug.providers[k] \in {"disabled", "error"}
    /\ (call.media # undefined /\ VisionSkipped)
         => /\ "vision" \in DOMAIN res.debug.providers
            /\ res.debug.providers.vision \in {"disabled", "error"}

\* The store is disabled, or enabled and failing.
StoreUnavailable == ~supabaseEnabled \/ ~storeUp

\* C21: with the store disabled or failing, listRecentMediaHashes returns
\* an empty list and saveMediaHash changes nothing, neither raising; and
\* moderateImage returns what it returns with an empty store, the result
\* of scanning the provided hashes alone, whatever rows the store holds.
C21_StoreNeverBlocks ==
  StoreUnavailable =>
    /\ listRecentMediaHashes("image", 500) = <<>>
    /\ listRecentMediaHashes("video", 500) = <<>>
    /\ (call.fn = "moderateImage" /\ call.asset.fetch /\ call.asset.decode)
         => /\ res = ImageResult(FirstDuplicate(call.asset.hashes.pHash,
                                                call.existingHashes),
                                 call.asset)
            /\ table = call.stored

\* C21 witness: the store is enabled and failing and holds the hash of the
\* image; the call returns the image's hashes and no duplicate flag.
C21_Witness ==
  /\ call.fn = "moderateImage"
  /\ call.asset.fetch /\ call.asset.decode
  /\ supabaseEnabled
  /\ ~storeUp
  /\ \E i \in 1..Len(table) : table[i].hash = call.asset.hashes.pHash
  /\ call.existingHashes = <<>>
  /\ res.hashes = call.asset.hashes
  /\ \A i \in 1..Len(res.flags) : res.flags[i].category # "duplicate"

IsCli == call.fn = "main"

\* C22: the command exits with 2, without running moderation, when it is
\* given neither a text nor both a media url and a media type; otherwise
\* with 1 when the label of the result is block, the error block of the
\* catch included, and with 0 when the label is allow or review.
C22_ExitCodes ==
  IsCli =>
    IF ~HasText(call.args.text)
       /\ ~(Has(call.args, "mediaUrl") /\ Has(call.args, "mediaType"))
    THEN res.exitCode = 2 /\ ~Has(res, "label") /\ table = call.stored
    ELSE /\ res.label \in {"allow", "review", "block"}
         /\ res.exitCode = 1 <=> res.label = "block"
         /\ res.exitCode = 0 <=> res.label \in {"allow", "review"}
         /\ call.fault = "scoring" => res.exitCode = 1 /\ res.flags[1].category = "error"

\* C22 witness: a run whose result is labelled review exits with 0.
C22_Witness ==
  /\ IsCli
  /\ Has(res, "label")
  /\ res.label = "review"
  /\ res.exitCode = 0

\* C23: the debug field of a result of moderateContent is there iff debug
\* is on, and the same call made with debug flipped (in the same hour, and
\* not reading rows of the hash store, which the first call may have
\* added to) returns the same score, label, platform and flags.
C23_DebugNoEffect ==
  (IsModerate /\ res # undefined) =>
    /\ Has(res, "debug") <=> config.debug
    /\ (call.rel = "debug" /\ ~ReadsStore)
         => /\ res.score = prev.score
            /\ res.label = prev.label
            /\ res.platform = prev.platform
            /\ res.flags = prev.flags

\* C23 witness: a call with a context, made with debug off and then with
\* debug on, returns flags and a score above 0 both times, the second
\* result with the trace.
C23_Witness ==
  /\ IsModerate
  /\ res # undefined
  /\ call.rel = "debug"
  /\ ~ReadsStore
  /\ config.debug
  /\ Has(call.options, "context")
  /\ Has(res, "debug")
  /\ ~Has(prev, "debug")
  /\ res.score > 0
  /\ Len(res.flags) > 0

\* The flags of the result with the category.
FlagsOf(category) == SelectSeq(res.flags, LAMBDA f : f.category = category)

\* The count is there and above the threshold.
Exceeds(postingHistory, count, threshold) ==
  IF Has(postingHistory, count) THEN postingHistory[count] > threshold ELSE FALSE

\* C24 as stated: analyzeTemporalFeatures flags burst_posting, with weight
\* 20, iff lastHourCount exceeds the burst-hour threshold, and high_volume,
\* with weight 15, iff last24hCount exceeds the burst-day threshold, each
\* whatever the other count.
C24_EachCountAlone ==
  call.fn = "analyzeTemporalFeatures" =>
    /\ FlagsOf("burst_posting") # <<>>
         <=> Exceeds(call.postingHistory, "lastHourCount", config.temporal.burstHour)
    /\ FlagsOf("high_volume") # <<>>
         <=> Exceeds(call.postingHistory, "last24hCount", config.temporal.burstDay)
    /\ \A i \in 1..Len(res.flags) :
         /\ res.flags[i].category = "burst_posting" => res.flags[i].weight = 20
         /\ res.flags[i].category = "high_volume" => res.flags[i].weight = 15

\* C25 as stated: the temporal multiplier calculateModerationScore applies
\* is what getTemporalRiskMultiplier of features/temporal.ts returns for
\* the features of the posting history: 1.3 for the hour burst times 1.2
\* for the day burst times 1.1 for more than 10 posts per hour, at most 2.
C25_SameTemporalMultiplier ==
  (IsScore /\ call.context # undefined /\ Has(call.context, "postingHistory")) =>
    RatEq(locals.featureMultipliers.temporal,
          temporal_getTemporalRiskMultiplier(
            analyzeTemporalFeatures(call.context.postingHistory).features))

Between(x, low, high) == RatGeq(x, low) /\ RatLeq(x, high)

\* The features analyzer k derived from the call's context.
FeaturesOf(k) == AnalyzerResults(CallContext)[k].features

C27_ScoreLabelAgree ==
  Scored =>
    /\ res.label = "block" <=> res.score >= config.thresholds.block
    /\ res.label = "allow" <=> res.score < config.thresholds.review

\* The flags of source rule in the result.
RuleFlags == SelectSeq(res.flags, LAMBDA f : f.source = "rule")

\* C28 as stated: the rule flags of a result of moderateContent are those
\* of one run of each detector, one flag per match: as many as
\* runAllDetectors returns for the text, each category as often as there.
C28_DetectorsOnce ==
  (IsModerate /\ call.fault = "none" /\ HasText(call.text)) =>
    /\ Len(RuleFlags) = Len(runAllDetectors(call.text))
    /\ \A i \in 1..Len(RuleFlags) :
         Len(SelectSeq(RuleFlags, LAMBDA f : f.category = RuleFlags[i].category))
           = Len(SelectSeq(runAllDetectors(call.text),
                           LAMBDA f : f.category = RuleFlags[i].category))

\* The call is a moderateImage that hashed the image and found the store
\* enabled and answering.
StoreLookup ==
  /\ call.fn = "moderateImage"
  /\ call.asset.fetch /\ call.asset.decode
  /\ supabaseEnabled /\ storeUp

\* The store as the call found it holds the image's pHash in a row of type
\* image.
SeenBefore ==
  \E i \in 1..Len(call.stored) :
    call.stored[i].type = "image" /\ call.stored[i].hash = call.asset.hashes.pHash

C30_MalformedCandidate ==
  (call.fn = "moderateImage" /\ call.asset.fetch /\ call.asset.decode) =>
    /\ res.hashes = call.asset.hashes
    /\ (\E i \in 1..Len(Candidates) : WithinThreshold(FrameHashes[1], Candidates[i]))
         => DuplicateFlags(1) # <<>>
    /\ config.enableRekognition
         => Len(SelectSeq(res.flags, LAMBDA f : f.source = "vision"))
              = Len(VisionCategories(call.asset.vision))

====
